---- MODULE Spec2Model ----
(***************************************************************************)
(* fork-sweeper: fetch the forks of an owner page by page, partition them  *)
(* into guarded and unguarded forks, list them, and delete the unguarded   *)
(* ones concurrently.                                                      *)
(*                                                                         *)
(* Strings are sequences of characters, so that lower-casing, trimming and *)
(* substring search are computed as the Go library computes them.  The     *)
(* characters are those of ASCII: the printable ones are one-character     *)
(* strings, the others are written by their code point, "U+000B"; so are   *)
(* the white-space characters beyond ASCII.  Instants are integers counted *)
(* in days; 0 is Go's zero time.Time.                                      *)
(***************************************************************************)
EXTENDS Integers, Sequences, FiniteSets, TLC

VARIABLES
    pc,               \* position of the running call
    now,              \* the value time.Now() returns during the call
    server,           \* the remote API: the response to the request for page n
    parseResult,      \* what fs.Parse(args) returned
    flagErrorHandling, \* the field flagErrorHandling of the cliConfig
    version,          \* --version
    owner,            \* --owner
    token,            \* --token
    perPage,          \* --per-page
    maxPage,          \* --max-page
    olderThanDays,    \* --older-than-days
    delete,           \* --delete
    protectedRepos,   \* the guard list (--guard values)
    forkedRepos,      \* result of fetchForkedRepos, input of the filter
    err,              \* error result of the last call
    requests,         \* GET requests issued so far, in order
    unguardedRepos,   \* first result of filterForkedRepos
    guardedRepos,     \* second result of filterForkedRepos
    updatedAtSplit,   \* <<unguarded, guarded>> of the updatedAt revision
    createdAtFetch,   \* [repos, err, requests] of the createdAt revision
    createdAtDelete,  \* DELETE requests deleteRepo of the createdAt revision issued
    configuredFilter, \* the field filterForkedRepos of the cliConfig
    stdout,           \* lines written to c.stdout, in order
    stderr,           \* lines written to c.stderr, in order
    exitCode,         \* value CLI returned or status given to os.Exit
    toDelete,         \* the repos argument of the running deleteRepos call
    task,             \* position of each goroutine of deleteRepos
    taskErr,          \* what deleteRepo returned to each goroutine
    deletes,          \* DELETE requests each goroutine issued, in order
    wg,               \* counter of the sync.WaitGroup
    errChan,          \* buffer of errChan
    closed            \* whether errChan has been closed

flagVars ==
    <<parseResult, flagErrorHandling, version, owner, token, perPage, maxPage,
      olderThanDays, delete, protectedRepos>>

filterVars == <<unguardedRepos, guardedRepos, updatedAtSplit>>

outVars == <<stdout, stderr, exitCode>>

deleteVars == <<toDelete, task, taskErr, deletes, wg, errChan, closed>>

vars ==
    <<pc, now, server, createdAtFetch, createdAtDelete, configuredFilter,
      flagVars, forkedRepos, err, requests, filterVars, outVars, deleteVars>>

----------------------------------------------------------------------------
(* Bounds of the checked input space.                                      *)

MaxGuards == 2       \* longest guard list
MaxDays == 1         \* largest --older-than-days
MaxRepos == 2        \* longest list handed to the filter
MaxPage == 2         \* largest --max-page, and number of pages the server holds
MaxPerPage == 2      \* most entries the server puts on a page
MaxForks == 2        \* most forks of the owner in a run of the CLI

----------------------------------------------------------------------------
(* Strings.                                                                *)

SeqsUpTo(S, n) == UNION {[1..k -> S] : k \in 0..n}

SeqsFromTo(S, m, n) == UNION {[1..k -> S] : k \in m..n}

UpperCase ==
    <<"A", "B", "C", "D", "E", "F", "G", "H", "I", "J", "K", "L", "M",
      "N", "O", "P", "Q", "R", "S", "T", "U", "V", "W", "X", "Y", "Z">>

LowerCase ==
    <<"a", "b", "c", "d", "e", "f", "g", "h", "i", "j", "k", "l", "m",
      "n", "o", "p", "q", "r", "s", "t", "u", "v", "w", "x", "y", "z">>

\* unicode.ToLower on one character
LowerChar(c) ==
    IF \E i \in DOMAIN UpperCase : UpperCase[i] = c
    THEN LowerCase[CHOOSE i \in DOMAIN UpperCase : UpperCase[i] = c]
    ELSE c

\* strings.ToLower
ToLower(s) == [i \in DOMAIN s |-> LowerChar(s[i])]

\* unicode.IsSpace: '\t', '\n', '\v', '\f', '\r', ' ', U+0085, U+00A0, and
\* the code points with the property White_Space beyond Latin-1
IsSpace(c) ==
    c \in {"\t", "\n", "U+000B", "\f", "\r", " ", "U+0085", "U+00A0",
           "U+1680", "U+2000", "U+2001", "U+2002", "U+2003", "U+2004",
           "U+2005", "U+2006", "U+2007", "U+2008", "U+2009", "U+200A",
           "U+2028", "U+2029", "U+202F", "U+205F", "U+3000"}

\* strings.TrimSpace: drop leading and trailing white space
TrimSpace(s) ==
    LET keep == {i \in DOMAIN s : ~IsSpace(s[i])}
    IN  IF keep = {} THEN <<>>
        ELSE LET lo == CHOOSE i \in keep : \A j \in keep : i <= j
                 hi == CHOOSE i \in keep : \A j \in keep : j <= i
             IN  SubSeq(s, lo, hi)

\* strings.Contains
Contains(s, substr) ==
    \E i \in 0..(Len(s) - Len(substr)) :
        SubSeq(s, i + 1, i + Len(substr)) = substr

----------------------------------------------------------------------------
(* Instants.                                                               *)

ZeroTime == 0        \* time.Time{}
Day == 1             \* 24 * time.Hour

\* time.Time.After
After(t, u) == t > u

\* A time.Duration is an int64 of nanoseconds.  24 * time.Hour is
\* 2^16 * DayUnits nanoseconds, so a whole number n of days, multiplied in
\* int64, is the multiple n * DayUnits of 2^16 ns reduced to the range
\* -2^47 .. 2^47 - 1.  Such multiples exceed the integers of the model
\* checker; they are written <<d, u>>, standing for d * DayUnits + u with
\* 0 <= u < DayUnits.
DayUnits == 1318359375

\* 2^47 and 2^48
TwoTo47 == <<106751, 1306714703>>
TwoTo48 == <<213503, 1295070031>>

UnitsAdd(x, y) ==
    IF x[2] >= DayUnits - y[2]
    THEN <<x[1] + y[1] + 1, x[2] - (DayUnits - y[2])>>
    ELSE <<x[1] + y[1], x[2] + y[2]>>

UnitsNeg(x) ==
    IF x[2] = 0 THEN <<-x[1], 0>> ELSE <<-x[1] - 1, DayUnits - x[2]>>

UnitsLess(x, y) == x[1] < y[1] \/ (x[1] = y[1] /\ x[2] < y[2])

\* q * x for a natural number q
RECURSIVE UnitsTimesNat(_, _)
UnitsTimesNat(q, x) ==
    IF q = 0 THEN <<0, 0>>
    ELSE LET h == UnitsTimesNat(q \div 2, x)
             dbl == UnitsAdd(h, h)
         IN  IF q % 2 = 1 THEN UnitsAdd(dbl, x) ELSE dbl

UnitsTimes(q, x) ==
    IF q >= 0 THEN UnitsTimesNat(q, x) ELSE UnitsNeg(UnitsTimesNat(-q, x))

\* time.Duration(n) * 24 * time.Hour: n days if that is in the range of
\* int64, and otherwise n days less the multiple of 2^64 ns that brings it
\* into the range
DaysDuration(n) ==
    LET inRange(x) == ~UnitsLess(x, UnitsNeg(TwoTo47)) /\ UnitsLess(x, TwoTo47)
        wrapped(q) == UnitsAdd(<<n, 0>>, UnitsTimes(q, TwoTo48))
    IN  IF inRange(<<n, 0>>) THEN <<n, 0>>
        ELSE wrapped(CHOOSE k \in (-(n \div 213504) - 2)..(-(n \div 213504) + 1) :
                         inRange(wrapped(k)))

\* time.Time.Add on an instant of whole days: the day the sum lies in (a
\* sum inside a day compares with instants of whole days as the start of
\* that day does)
Add(t, d) == t + d[1]

----------------------------------------------------------------------------
(* The repo struct.                                                        *)

OwnerLogin == <<"o">>

MkRepo(name, isFork, c, u, p) ==
    [Name |-> name, URL |-> OwnerLogin \o <<"/">> \o name, IsFork |-> isFork,
     Owner |-> OwnerLogin, CreatedAt |-> c, UpdatedAt |-> u, PushedAt |-> p]

\* repository names: lower case, upper case, and two mixed-case names of
\* which the one-letter names are proper substrings
Names == {<<"a">>, <<"B">>, <<"a", "B">>, <<"B", "a">>}

\* guard entries: empty, a space, a form feed, a letter in the case opposite
\* to the names', a two-letter entry, and an entry with leading white space
GuardEntries ==
    {<<>>, <<" ">>, <<"\f">>, <<"A">>, <<"b">>, <<"A", "b">>, <<" ", "A">>}

\* the instant of the run; every cutoff lies after the zero time
Present == MaxDays + 1

\* the least number of days whose time.Duration exceeds the int64, and the
\* instant of a run that many days and one more after the zero time
WrapDays == 106752
LatePresent == WrapDays + Day

Instants == ZeroTime..Present

\* forks with independent timestamps
Forks ==
    {MkRepo(n, TRUE, c, u, p) :
        n \in Names, c \in Instants, u \in Instants, p \in Instants}

\* forks whose three timestamps agree
PlainForks == {MkRepo(n, TRUE, t, t, t) : n \in Names, t \in Instants}

----------------------------------------------------------------------------
(* filterForkedRepos, three-timestamp revision.                            *)

\* now.Add(time.Duration(-olderThanDays) * 24 * time.Hour)
cutOffDate(t, days) == Add(t, DaysDuration(-days))

\* time.Now().AddDate(0, 0, -olderThanDays), the cutoff of the two earlier
\* revisions
cutOffDateAddDate(t, days) == t - days * Day

hasRecentActivitySwapped(r, cutoff) ==
    \/ After(cutoff, r.PushedAt)
    \/ After(cutoff, r.UpdatedAt)
    \/ After(cutoff, r.CreatedAt)

hasRecentActivity(r, cutoff) ==
    \/ After(r.PushedAt, cutoff)
    \/ After(r.UpdatedAt, cutoff)
    \/ After(r.CreatedAt, cutoff)

isGuardedNameCaseSensitive(r, guardedRepoNames) ==
    \E k \in DOMAIN guardedRepoNames :
        LET repoName == r.Name
            name == ToLower(guardedRepoNames[k])
        IN  TrimSpace(name) # <<>> /\ Contains(repoName, name)

isGuardedName(r, guardedRepoNames) ==
    \E k \in DOMAIN guardedRepoNames :
        LET repoName == ToLower(r.Name)
            name == ToLower(guardedRepoNames[k])
        IN  TrimSpace(name) # <<>> /\ Contains(repoName, name)

RECURSIVE filterLoopFallThrough(_, _, _, _, _, _)
filterLoopFallThrough(repos, i, guardedRepoNames, cutoff, unguarded, guarded) ==
    IF i > Len(repos) THEN <<unguarded, guarded>>
    ELSE LET r == repos[i]
             g1 == IF hasRecentActivity(r, cutoff)
                   THEN Append(guarded, r) ELSE guarded
         IN  IF isGuardedName(r, guardedRepoNames)
             THEN filterLoopFallThrough(repos, i + 1, guardedRepoNames, cutoff,
                                        unguarded, Append(g1, r))
             ELSE filterLoopFallThrough(repos, i + 1, guardedRepoNames, cutoff,
                                        Append(unguarded, r), g1)

RECURSIVE filterLoopPrepend(_, _, _, _, _, _)
filterLoopPrepend(repos, i, guardedRepoNames, cutoff, unguarded, guarded) ==
    IF i > Len(repos) THEN <<unguarded, guarded>>
    ELSE LET r == repos[i]
         IN  IF hasRecentActivity(r, cutoff) \/ isGuardedName(r, guardedRepoNames)
             THEN filterLoopPrepend(repos, i + 1, guardedRepoNames, cutoff,
                                    unguarded, <<r>> \o guarded)
             ELSE filterLoopPrepend(repos, i + 1, guardedRepoNames, cutoff,
                                    <<r>> \o unguarded, guarded)

\* the body of `for _, repo := range forkedRepos`
RECURSIVE filterLoop(_, _, _, _, _, _)
filterLoop(repos, i, guardedRepoNames, cutoff, unguarded, guarded) ==
    IF i > Len(repos) THEN <<unguarded, guarded>>
    ELSE LET r == repos[i]
         IN  IF hasRecentActivity(r, cutoff) \/ isGuardedName(r, guardedRepoNames)
             THEN filterLoop(repos, i + 1, guardedRepoNames, cutoff,
                             unguarded, Append(guarded, r))
             ELSE filterLoop(repos, i + 1, guardedRepoNames, cutoff,
                             Append(unguarded, r), guarded)

\* returns <<unguardedRepos, guardedRepos>>
filterForkedReposSwapped(repos, guardedRepoNames, days, t) ==
    LET out == filterLoop(repos, 1, guardedRepoNames, cutOffDate(t, days),
                          <<>>, <<>>)
    IN  <<out[2], out[1]>>

filterForkedRepos(repos, guardedRepoNames, days, t) ==
    filterLoop(repos, 1, guardedRepoNames, cutOffDate(t, days), <<>>, <<>>)

----------------------------------------------------------------------------
(* filterForkedRepos, updatedAt revision.                                  *)

isGuardedNameUpdatedAt(r, guardedRepoNames) ==
    \E k \in DOMAIN guardedRepoNames :
        Contains(ToLower(r.Name), ToLower(guardedRepoNames[k]))

RECURSIVE filterLoopUpdatedAt(_, _, _, _, _, _)
filterLoopUpdatedAt(repos, i, guardedRepoNames, cutoff, unguarded, guarded) ==
    IF i > Len(repos) THEN <<unguarded, guarded>>
    ELSE LET r == repos[i]
         IN  IF After(r.UpdatedAt, cutoff)
             THEN filterLoopUpdatedAt(repos, i + 1, guardedRepoNames, cutoff,
                                      unguarded, Append(guarded, r))
             ELSE IF isGuardedNameUpdatedAt(r, guardedRepoNames)
             THEN filterLoopUpdatedAt(repos, i + 1, guardedRepoNames, cutoff,
                                      unguarded, Append(guarded, r))
             ELSE filterLoopUpdatedAt(repos, i + 1, guardedRepoNames, cutoff,
                                      Append(unguarded, r), guarded)

filterForkedReposUpdatedAt(repos, guardedRepoNames, days, t) ==
    filterLoopUpdatedAt(repos, 1, guardedRepoNames,
                        cutOffDateAddDate(t, days), <<>>, <<>>)

----------------------------------------------------------------------------
(* The remote API and doRequest.                                           *)

\* errors are records, told apart by their text: the status errors by the
\* code that fmt.Errorf prints into it
Nil == [text |-> "nil", code |-> 0]

\* the error of fmt.Errorf("API request failed with status: %d", code)
StatusError(code) == [text |-> "API request failed with status: ", code |-> code]

\* the error of httpClient.Do: no response was received
TransportError == [text |-> "transport error", code |-> 0]

\* the error of json.Decoder.Decode on a body that is no JSON array: the
\* target is left as it was
DecodeError == [text |-> "decode error", code |-> 0]

\* the *json.UnmarshalTypeError of json.Decoder.Decode on a JSON array one of
\* whose values has the wrong type for its field: the decoder skips that
\* value, completes the rest and returns the error
UnmarshalTypeError == [text |-> "json: cannot unmarshal", code |-> 0]

\* the errors of url.Parse, returned by http.NewRequestWithContext
InvalidControlCharacter ==
    [text |-> "net/url: invalid control character in URL", code |-> 0]
InvalidURLEscape == [text |-> "invalid URL escape", code |-> 0]

StatusOK == 200             \* http.StatusOK
StatusBadRequest == 400     \* http.StatusBadRequest
StatusUnauthorized == 401   \* http.StatusUnauthorized
StatusForbidden == 403      \* http.StatusForbidden
StatusNotFound == 404       \* http.StatusNotFound

\* JSON values of the key "fork": a boolean, or a number
JsonBool(b) == [bool |-> b]
JsonNumber(n) == [number |-> n]

\* a JSON object of the listing endpoint
MkJson(name, fork, t) ==
    [name |-> name, full_name |-> OwnerLogin \o <<"/">> \o name,
     html_url |-> OwnerLogin \o <<"/">> \o name, fork |-> JsonBool(fork),
     owner |-> [login |-> OwnerLogin],
     created_at |-> t, updated_at |-> t, pushed_at |-> t]

\* the value of a key of a JSON object; a field whose key is absent keeps
\* its zero value
Field(o, key, zero) == IF key \in DOMAIN o THEN o[key] ELSE zero

\* the bool field tagged "fork": a value that is no boolean is skipped
ForkField(o) ==
    IF "fork" \in DOMAIN o /\ "bool" \in DOMAIN o.fork THEN o.fork.bool
    ELSE FALSE

\* the string field of the struct tagged "owner"
OwnerField(o, key) ==
    IF "owner" \in DOMAIN o THEN Field(o.owner, key, <<>>) ELSE <<>>

\* the value of "fork" cannot be stored in a bool
HasTypeError(o) == "fork" \in DOMAIN o /\ "bool" \notin DOMAIN o.fork

\* json.Unmarshal into the repo struct, by the struct's field tags
decodeRepo(o) ==
    [Name |-> Field(o, "name", <<>>), URL |-> Field(o, "html_url", <<>>),
     IsFork |-> ForkField(o), Owner |-> OwnerField(o, "login"),
     CreatedAt |-> Field(o, "created_at", ZeroTime),
     UpdatedAt |-> Field(o, "updated_at", ZeroTime),
     PushedAt |-> Field(o, "pushed_at", ZeroTime)]

decodeRepos(body) == [i \in DOMAIN body |-> decodeRepo(body[i])]

\* the error json.Decoder.Decode returns for a JSON array
decodeError(body) ==
    IF \E i \in DOMAIN body : HasTypeError(body[i])
    THEN UnmarshalTypeError ELSE Nil

\* a response: whether one arrived at all, its status, whether its body is
\* a JSON array of objects, and the objects of that array
Response(transportOk, status, wellFormed, body) ==
    [transportOk |-> transportOk, status |-> status,
     wellFormed |-> wellFormed, body |-> body]

doRequestDecodeFirst(resp, wantResult) ==
    IF ~resp.transportOk THEN [err |-> TransportError, value |-> <<>>]
    ELSE IF wantResult /\ ~resp.wellFormed
    THEN [err |-> DecodeError, value |-> <<>>]
    ELSE IF resp.status >= StatusBadRequest
    THEN [err |-> StatusError(resp.status), value |-> <<>>]
    ELSE IF wantResult
    THEN [err |-> decodeError(resp.body), value |-> decodeRepos(resp.body)]
    ELSE [err |-> Nil, value |-> <<>>]

\* returns [err, value]; value is what the result target holds afterwards
doRequest(resp, wantResult) ==
    IF ~resp.transportOk THEN [err |-> TransportError, value |-> <<>>]
    ELSE IF resp.status >= StatusBadRequest
    THEN [err |-> StatusError(resp.status), value |-> <<>>]
    ELSE IF wantResult /\ ~resp.wellFormed
    THEN [err |-> DecodeError, value |-> <<>>]
    ELSE IF wantResult
    THEN [err |-> decodeError(resp.body), value |-> decodeRepos(resp.body)]
    ELSE [err |-> Nil, value |-> <<>>]

\* the entries the server serves: a fork without activity, a fork active
\* at the instant of the run, and a repository that is no fork
JsonRepos ==
    {MkJson(<<"a">>, TRUE, ZeroTime), MkJson(<<"B">>, TRUE, Present),
     MkJson(<<"a", "B">>, FALSE, ZeroTime)}

Pages == SeqsUpTo(JsonRepos, MaxPerPage)

\* an object whose "fork" is the number 1
IllTypedJson ==
    [MkJson(<<"a">>, TRUE, ZeroTime) EXCEPT !.fork = JsonNumber(1)]

\* an object of the createdAt revision's listing: no "name", no owner login,
\* one timestamp
SparseJson ==
    [full_name |-> OwnerLogin \o <<"/">> \o <<"a">>,
     html_url |-> OwnerLogin \o <<"/">> \o <<"a">>, fork |-> JsonBool(TRUE),
     owner |-> [name |-> OwnerLogin], created_at |-> ZeroTime]

Responses ==
    {Response(TRUE, StatusOK, TRUE, p) : p \in Pages}
    \cup {Response(TRUE, StatusNotFound, TRUE, <<>>),
          Response(TRUE, StatusUnauthorized, TRUE, <<>>),
          Response(TRUE, StatusOK, FALSE, <<>>),
          Response(TRUE, StatusOK, TRUE, <<IllTypedJson>>),
          Response(FALSE, StatusOK, TRUE, <<>>)}

\* the characters url.Parse rejects before the first "#" of a URL: ASCII
\* below the space, and DEL
ControlChars ==
    {"U+0000", "U+0001", "U+0002", "U+0003", "U+0004", "U+0005", "U+0006",
     "U+0007", "U+0008", "\t", "\n", "U+000B", "\f", "\r", "U+000E",
     "U+000F", "U+0010", "U+0011", "U+0012", "U+0013", "U+0014", "U+0015",
     "U+0016", "U+0017", "U+0018", "U+0019", "U+001A", "U+001B", "U+001C",
     "U+001D", "U+001E", "U+001F", "U+007F"}

HexDigits ==
    {"0", "1", "2", "3", "4", "5", "6", "7", "8", "9",
     "a", "b", "c", "d", "e", "f", "A", "B", "C", "D", "E", "F"}

\* url.Parse on a URL whose path the arguments fill with s: the URL is cut
\* at the first "#", what precedes at the first "?"; what precedes the "#"
\* must hold no control character, the fragment may; a "%" of the path or
\* of the fragment must be followed by two hexadecimal digits, the query is
\* taken as it is.  What follows s in the URL starts with "/" or is empty.
urlParseError(s) ==
    LET inFragment(i) == \E k \in 1..(i - 1) : s[k] = "#"
        inQuery(i) == /\ \E j \in 1..(i - 1) : s[j] = "?"
                      /\ ~inFragment(i)
        escaped(i) == /\ i + 2 <= Len(s)
                      /\ s[i + 1] \in HexDigits
                      /\ s[i + 2] \in HexDigits
    IN  IF \E i \in DOMAIN s : s[i] \in ControlChars /\ ~inFragment(i)
        THEN InvalidControlCharacter
        ELSE IF \E i \in DOMAIN s :
                    s[i] = "%" /\ ~inQuery(i) /\ ~escaped(i)
        THEN InvalidURLEscape
        ELSE Nil

\* the server answers a page it does not hold with an empty array
PageResponse(srv, pageNum) ==
    IF pageNum \in DOMAIN srv THEN srv[pageNum]
    ELSE Response(TRUE, StatusOK, TRUE, <<>>)

Servers == [1..MaxPage -> Responses]

GetRequest(pageNum, n) == [method |-> "GET", page |-> pageNum, perPage |-> n]

----------------------------------------------------------------------------
(* fetchForkedReposPage and fetchForkedRepos.                              *)

fetchForkedReposPageUnfiltered(ownerName, resp) ==
    LET e == urlParseError(ownerName)
        r == doRequest(resp, TRUE)
    IN  IF e # Nil THEN [repos |-> <<>>, err |-> e, sent |-> FALSE]
        ELSE IF r.err # Nil THEN [repos |-> <<>>, err |-> r.err, sent |-> TRUE]
        ELSE [repos |-> r.value, err |-> Nil, sent |-> TRUE]

\* returns [repos, err, sent]; sent tells whether the GET request was issued:
\* it is not when http.NewRequestWithContext rejects the URL
fetchForkedReposPage(ownerName, resp) ==
    LET e == urlParseError(ownerName)
        r == doRequest(resp, TRUE)
    IN  IF e # Nil THEN [repos |-> <<>>, err |-> e, sent |-> FALSE]
        ELSE IF r.err # Nil THEN [repos |-> <<>>, err |-> r.err, sent |-> TRUE]
        ELSE [repos |-> SelectSeq(r.value, LAMBDA x : x.IsFork), err |-> Nil,
              sent |-> TRUE]

RECURSIVE fetchLoopNoBreak(_, _, _, _, _, _, _)
fetchLoopNoBreak(srv, ownerName, n, max, pageNum, allRepos, reqs) ==
    IF pageNum > max
    THEN [repos |-> allRepos, err |-> Nil, requests |-> reqs]
    ELSE LET page == fetchForkedReposPage(ownerName, PageResponse(srv, pageNum))
             sent == IF page.sent THEN Append(reqs, GetRequest(pageNum, n))
                     ELSE reqs
         IN  IF page.err # Nil
             THEN [repos |-> <<>>, err |-> page.err, requests |-> sent]
             ELSE fetchLoopNoBreak(srv, ownerName, n, max, pageNum + 1,
                                   allRepos \o page.repos, sent)

RECURSIVE fetchLoopOffByOne(_, _, _, _, _, _, _)
fetchLoopOffByOne(srv, ownerName, n, max, pageNum, allRepos, reqs) ==
    IF pageNum > max + 1
    THEN [repos |-> allRepos, err |-> Nil, requests |-> reqs]
    ELSE LET page == fetchForkedReposPage(ownerName, PageResponse(srv, pageNum))
             sent == IF page.sent THEN Append(reqs, GetRequest(pageNum, n))
                     ELSE reqs
         IN  IF page.err # Nil
             THEN [repos |-> <<>>, err |-> page.err, requests |-> sent]
             ELSE IF Len(page.repos) = 0
             THEN [repos |-> allRepos, err |-> Nil, requests |-> sent]
             ELSE fetchLoopOffByOne(srv, ownerName, n, max, pageNum + 1,
                                    allRepos \o page.repos, sent)

RECURSIVE fetchLoopAtLeastOnce(_, _, _, _, _, _, _)
fetchLoopAtLeastOnce(srv, ownerName, n, max, pageNum, allRepos, reqs) ==
    IF pageNum > max /\ pageNum > 1
    THEN [repos |-> allRepos, err |-> Nil, requests |-> reqs]
    ELSE LET page == fetchForkedReposPage(ownerName, PageResponse(srv, pageNum))
             sent == IF page.sent THEN Append(reqs, GetRequest(pageNum, n))
                     ELSE reqs
         IN  IF page.err # Nil
             THEN [repos |-> <<>>, err |-> page.err, requests |-> sent]
             ELSE IF Len(page.repos) = 0
             THEN [repos |-> allRepos, err |-> Nil, requests |-> sent]
             ELSE fetchLoopAtLeastOnce(srv, ownerName, n, max, pageNum + 1,
                                       allRepos \o page.repos, sent)

RECURSIVE fetchLoopKeepsPartial(_, _, _, _, _, _, _)
fetchLoopKeepsPartial(srv, ownerName, n, max, pageNum, allRepos, reqs) ==
    IF pageNum > max
    THEN [repos |-> allRepos, err |-> Nil, requests |-> reqs]
    ELSE LET page == fetchForkedReposPage(ownerName, PageResponse(srv, pageNum))
             sent == IF page.sent THEN Append(reqs, GetRequest(pageNum, n))
                     ELSE reqs
         IN  IF page.err # Nil
             THEN [repos |-> allRepos, err |-> page.err, requests |-> sent]
             ELSE IF Len(page.repos) = 0
             THEN [repos |-> allRepos, err |-> Nil, requests |-> sent]
             ELSE fetchLoopKeepsPartial(srv, ownerName, n, max, pageNum + 1,
                                        allRepos \o page.repos, sent)

\* the loop `for pageNum := 1; pageNum <= maxPage; pageNum++`
RECURSIVE fetchLoop(_, _, _, _, _, _, _)
fetchLoop(srv, ownerName, n, max, pageNum, allRepos, reqs) ==
    IF pageNum > max
    THEN [repos |-> allRepos, err |-> Nil, requests |-> reqs]
    ELSE LET page == fetchForkedReposPage(ownerName, PageResponse(srv, pageNum))
             sent == IF page.sent THEN Append(reqs, GetRequest(pageNum, n))
                     ELSE reqs
         IN  IF page.err # Nil
             THEN [repos |-> <<>>, err |-> page.err, requests |-> sent]
             ELSE IF Len(page.repos) = 0
             THEN [repos |-> allRepos, err |-> Nil, requests |-> sent]
             ELSE fetchLoop(srv, ownerName, n, max, pageNum + 1,
                            allRepos \o page.repos, sent)

\* returns [repos, err, requests]
fetchForkedRepos(srv, ownerName, n, max) ==
    fetchLoop(srv, ownerName, n, max, 1, <<>>, <<>>)

----------------------------------------------------------------------------
(* fetchForkedReposPage and fetchForkedRepos, createdAt revision.          *)

\* time.Time.Before
Before(t, u) == t < u

\* json.Unmarshal into the repo struct of this revision: the name is read
\* from "full_name", the owner's name from the key "name" of "owner"
decodeRepoCreatedAt(o) ==
    [Name |-> Field(o, "full_name", <<>>), URL |-> Field(o, "html_url", <<>>),
     IsFork |-> ForkField(o), Owner |-> OwnerField(o, "name"),
     CreatedAt |-> Field(o, "created_at", ZeroTime)]

decodeReposCreatedAt(body) ==
    [i \in DOMAIN body |-> decodeRepoCreatedAt(body[i])]

\* doRequest of this revision; returns [err, value]
doRequestCreatedAt(resp, wantResult) ==
    IF ~resp.transportOk THEN [err |-> TransportError, value |-> <<>>]
    ELSE IF resp.status >= StatusBadRequest
    THEN [err |-> StatusError(resp.status), value |-> <<>>]
    ELSE IF wantResult /\ ~resp.wellFormed
    THEN [err |-> DecodeError, value |-> <<>>]
    ELSE IF wantResult
    THEN [err |-> decodeError(resp.body),
          value |-> decodeReposCreatedAt(resp.body)]
    ELSE [err |-> Nil, value |-> <<>>]

\* returns [repos, err, sent]
fetchForkedReposPageCreatedAt(ownerName, resp, days, t) ==
    LET e == urlParseError(ownerName)
        r == doRequestCreatedAt(resp, TRUE)
        cutoff == cutOffDateAddDate(t, days)
    IN  IF e # Nil THEN [repos |-> <<>>, err |-> e, sent |-> FALSE]
        ELSE IF r.err # Nil THEN [repos |-> <<>>, err |-> r.err, sent |-> TRUE]
        ELSE [repos |-> SelectSeq(r.value,
                           LAMBDA x : x.IsFork /\ Before(x.CreatedAt, cutoff)),
              err |-> Nil, sent |-> TRUE]

RECURSIVE fetchLoopCreatedAt(_, _, _, _, _, _, _, _, _)
fetchLoopCreatedAt(srv, ownerName, n, max, days, t, pageNum, allRepos, reqs) ==
    IF pageNum > max
    THEN [repos |-> allRepos, err |-> Nil, requests |-> reqs]
    ELSE LET page == fetchForkedReposPageCreatedAt(ownerName,
                                                   PageResponse(srv, pageNum),
                                                   days, t)
             sent == IF page.sent THEN Append(reqs, GetRequest(pageNum, n))
                     ELSE reqs
         IN  IF page.err # Nil
             THEN [repos |-> <<>>, err |-> page.err, requests |-> sent]
             ELSE IF Len(page.repos) = 0
             THEN [repos |-> allRepos, err |-> Nil, requests |-> sent]
             ELSE fetchLoopCreatedAt(srv, ownerName, n, max, days, t, pageNum + 1,
                                     allRepos \o page.repos, sent)

\* returns [repos, err, requests]
fetchForkedReposCreatedAt(srv, ownerName, n, max, days, t) ==
    fetchLoopCreatedAt(srv, ownerName, n, max, days, t, 1, <<>>, <<>>)

----------------------------------------------------------------------------
(* Calls of the filter on bounded inputs.                                  *)

\* one fork with independent timestamps against any guard list, or several
\* plain forks against at most one guard entry
FilterInputs ==
    (SeqsUpTo(Forks, 1) \X SeqsUpTo(GuardEntries, MaxGuards))
    \cup (SeqsFromTo(PlainForks, 2, MaxRepos) \X SeqsUpTo(GuardEntries, 1))

DefaultPerPage == 100

\* the createdAt revision of fetchForkedRepos has not been called
NoFetch == [repos |-> <<>>, err |-> Nil, requests |-> <<>>]

NoExit == -1

\* nothing written, no deleteRepos call running
QuietInit ==
    /\ stdout = <<>>
    /\ stderr = <<>>
    /\ exitCode = NoExit
    /\ toDelete = <<>>
    /\ task = <<>>
    /\ taskErr = <<>>
    /\ deletes = <<>>
    /\ wg = 0
    /\ errChan = <<>>
    /\ closed = FALSE

InitFilter ==
    /\ pc = "filter"
    /\ \/ now = Present /\ olderThanDays \in 0..MaxDays
       \/ now = LatePresent /\ olderThanDays = WrapDays
    /\ server = <<>>
    /\ parseResult = "nil"
    /\ flagErrorHandling = "ExitOnError"
    /\ version = FALSE
    /\ owner = OwnerLogin
    /\ token = <<"t">>
    /\ perPage = DefaultPerPage
    /\ maxPage = 0
    /\ delete = FALSE
    /\ err = Nil
    /\ requests = <<>>
    /\ QuietInit
    /\ \E in \in FilterInputs :
          /\ forkedRepos = in[1]
          /\ protectedRepos = in[2]
    /\ unguardedRepos = <<>>
    /\ guardedRepos = <<>>
    /\ updatedAtSplit = <<<<>>, <<>>>>
    /\ createdAtFetch = NoFetch
    /\ createdAtDelete = <<>>
    /\ configuredFilter = "nil"

Filter ==
    /\ pc = "filter"
    /\ LET out == filterForkedRepos(forkedRepos, protectedRepos,
                                    olderThanDays, now)
       IN  /\ unguardedRepos' = out[1]
           /\ guardedRepos' = out[2]
    /\ updatedAtSplit' = filterForkedReposUpdatedAt(forkedRepos, protectedRepos,
                                                    olderThanDays, now)
    /\ pc' = "filtered"
    /\ UNCHANGED <<now, server, createdAtFetch, createdAtDelete,
                   configuredFilter, flagVars, forkedRepos, err, requests,
                   outVars, deleteVars>>

NextFilter == Filter

SpecFilter == InitFilter /\ [][NextFilter]_vars

----------------------------------------------------------------------------
(* Calls of fetchForkedRepos against bounded servers.                      *)

\* owners that url.Parse rejects in the path of a URL: a "%" without two
\* hexadecimal digits, a control character
BadOwners == {<<"%", "z", "z">>, <<"o", "U+007F">>}

\* owners with a "#": url.Parse takes what follows it as the fragment, where
\* a control character passes and a "%" must still start an escape
FragmentOwners == {<<"o", "#", "U+007F">>, <<"#", "%", "U+007F">>}

\* a server that holds one old fork on every page
ForkServer ==
    [n \in 1..MaxPage |->
        Response(TRUE, StatusOK, TRUE, <<MkJson(<<"a">>, TRUE, ZeroTime)>>)]

\* a server whose first page holds an object of the createdAt revision's
\* listing, and whose other pages are empty
SparseServer ==
    [n \in 1..MaxPage |->
        Response(TRUE, StatusOK, TRUE, IF n = 1 THEN <<SparseJson>> ELSE <<>>)]

\* the owner and the server of a call: the owner of the forks against any
\* server, an owner whose URL cannot be built or holds a fragment against
\* the server with forks
FetchInputs ==
    ({OwnerLogin} \X (Servers \cup {SparseServer}))
    \cup ((BadOwners \cup FragmentOwners) \X {ForkServer})

InitFetch ==
    /\ pc = "fetch"
    /\ now = Present
    /\ \E in \in FetchInputs :
          /\ owner = in[1]
          /\ server = in[2]
    /\ parseResult = "nil"
    /\ flagErrorHandling = "ExitOnError"
    /\ version = FALSE
    /\ token = <<"t">>
    /\ delete = FALSE
    /\ QuietInit
    /\ perPage = DefaultPerPage
    /\ maxPage \in 0..MaxPage
    /\ olderThanDays = 0
    /\ protectedRepos = <<>>
    /\ forkedRepos = <<>>
    /\ err = Nil
    /\ requests = <<>>
    /\ unguardedRepos = <<>>
    /\ guardedRepos = <<>>
    /\ updatedAtSplit = <<<<>>, <<>>>>
    /\ createdAtFetch = NoFetch
    /\ createdAtDelete = <<>>
    /\ configuredFilter = "nil"

Fetch ==
    /\ pc = "fetch"
    /\ LET res == fetchForkedRepos(server, owner, perPage, maxPage)
       IN  /\ forkedRepos' = res.repos
           /\ err' = res.err
           /\ requests' = requests \o res.requests
    /\ createdAtFetch' = fetchForkedReposCreatedAt(server, owner, perPage, maxPage,
                                                   olderThanDays, now)
    /\ pc' = "fetched"
    /\ UNCHANGED <<now, server, createdAtDelete, configuredFilter, flagVars,
                   filterVars, outVars, deleteVars>>

NextFetch == Fetch

SpecFetch == InitFetch /\ [][NextFetch]_vars

----------------------------------------------------------------------------
(* Calls of doRequest on bounded responses.                                *)

\* statuses on both sides of http.StatusBadRequest
Statuses ==
    {StatusOK, StatusBadRequest - 1, StatusBadRequest, StatusUnauthorized,
     StatusForbidden, StatusNotFound}

\* anything httpClient.Do may hand to doRequest
AnyResponses ==
    {Response(ok, st, wf, p) :
        ok \in BOOLEAN, st \in Statuses, wf \in BOOLEAN,
        p \in Pages \cup {<<IllTypedJson>>, <<SparseJson>>}}

\* doRequest is called with a result target (&repos) or without one (nil)
InitRequest ==
    /\ pc \in {"doRequest(&repos)", "doRequest(nil)"}
    /\ now = Present
    /\ \E resp \in AnyResponses : server = <<resp>>
    /\ parseResult = "nil"
    /\ flagErrorHandling = "ExitOnError"
    /\ version = FALSE
    /\ owner = OwnerLogin
    /\ token = <<"t">>
    /\ delete = FALSE
    /\ QuietInit
    /\ perPage = DefaultPerPage
    /\ maxPage = 1
    /\ olderThanDays = 0
    /\ protectedRepos = <<>>
    /\ forkedRepos = <<>>
    /\ err = Nil
    /\ requests = <<>>
    /\ unguardedRepos = <<>>
    /\ guardedRepos = <<>>
    /\ updatedAtSplit = <<<<>>, <<>>>>
    /\ createdAtFetch = NoFetch
    /\ createdAtDelete = <<>>
    /\ configuredFilter = "nil"

\* the call returns its error; forkedRepos is what the result target holds;
\* createdAtFetch holds both for doRequest of the createdAt revision
Request ==
    /\ pc \in {"doRequest(&repos)", "doRequest(nil)"}
    /\ LET r == doRequest(server[1], pc = "doRequest(&repos)")
           old == doRequestCreatedAt(server[1], pc = "doRequest(&repos)")
       IN  /\ err' = r.err
           /\ forkedRepos' = r.value
           /\ createdAtFetch' =
                  [repos |-> old.value, err |-> old.err, requests |-> <<>>]
    /\ pc' = IF pc = "doRequest(&repos)" THEN "returned(&repos)"
             ELSE "returned(nil)"
    /\ UNCHANGED <<now, server, createdAtDelete, configuredFilter, flagVars,
                   requests, filterVars, outVars, deleteVars>>

NextRequest == Request

SpecRequest == InitRequest /\ [][NextRequest]_vars

----------------------------------------------------------------------------
(* deleteRepo and deleteRepos.                                             *)

BaseURL == <<"https://api.github.com">>

DeleteURL(baseURL, ownerName, name) ==
    baseURL \o <<"/repos/">> \o ownerName \o <<"/">> \o name

DeleteRequest(url) == [method |-> "DELETE", url |-> url]

\* what the server may answer to a DELETE
DeleteResponses ==
    {Response(TRUE, StatusOK, TRUE, <<>>),
     Response(TRUE, StatusForbidden, TRUE, <<>>),
     Response(TRUE, StatusNotFound, TRUE, <<>>),
     Response(FALSE, StatusOK, TRUE, <<>>)}

\* deleteRepo up to http.NewRequestWithContext; returns [requests, err],
\* requests holding the request to send unless the URL was rejected
newDeleteRequest(baseURL, ownerName, name) ==
    LET e == urlParseError(ownerName \o <<"/">> \o name)
    IN  IF e # Nil THEN [requests |-> <<>>, err |-> e]
        ELSE [requests |->
                  <<DeleteRequest(DeleteURL(baseURL, ownerName, name))>>,
              err |-> Nil]

\* returns [requests, err]: the DELETE request it issued, if any, and its
\* result
deleteRepo(baseURL, ownerName, name, resp) ==
    LET nr == newDeleteRequest(baseURL, ownerName, name)
    IN  IF nr.err # Nil THEN nr
        ELSE [requests |-> nr.requests, err |-> doRequest(resp, FALSE).err]

ErrChanCap == 1      \* make(chan error, 1)

Unborn == {i \in DOMAIN task : task[i] = "unborn"}

\* the entry of deleteRepos: nothing spawned, an empty open channel
CallDeleteRepos(list) ==
    /\ toDelete' = list
    /\ task' = [i \in DOMAIN list |-> "unborn"]
    /\ taskErr' = [i \in DOMAIN list |-> Nil]
    /\ deletes' = [i \in DOMAIN list |-> <<>>]
    /\ wg' = 0
    /\ errChan' = <<>>
    /\ closed' = FALSE

\* one iteration of `for _, r := range repos`: wg.Add(1); go func(r repo)
Spawn ==
    /\ pc = "deleteRepos"
    /\ Unborn # {}
    /\ LET i == CHOOSE j \in Unborn : \A k \in Unborn : j <= k
       IN  task' = [task EXCEPT ![i] = "deleteRepo"]
    /\ wg' = wg + 1
    /\ UNCHANGED <<pc, now, server, createdAtFetch, createdAtDelete,
                   configuredFilter, flagVars, forkedRepos, err, requests,
                   filterVars, outVars, toDelete, taskErr, deletes, errChan,
                   closed>>

DeleteRepoUnlessFailed(i) ==
    /\ task[i] = "deleteRepo"
    /\ LET nr == newDeleteRequest(BaseURL, toDelete[i].Owner, toDelete[i].Name)
       IN  IF errChan # <<>>
           THEN /\ task' = [task EXCEPT ![i] = "exit"]
                /\ UNCHANGED <<deletes, taskErr>>
           ELSE /\ deletes' = [deletes EXCEPT ![i] = @ \o nr.requests]
                /\ taskErr' = [taskErr EXCEPT ![i] = nr.err]
                /\ task' = [task EXCEPT
                              ![i] = IF nr.err # Nil THEN "report"
                                     ELSE "httpClient.Do"]
    /\ UNCHANGED <<pc, now, server, createdAtFetch, createdAtDelete,
                   configuredFilter, flagVars, forkedRepos, err,
                   requests, filterVars, outVars, toDelete, wg, errChan, closed>>

\* goroutine i calls deleteRepo, which builds its request and sends it; a
\* URL that http.NewRequestWithContext rejects ends the call with the error
DeleteRepo(i) ==
    /\ task[i] = "deleteRepo"
    /\ LET nr == newDeleteRequest(BaseURL, toDelete[i].Owner, toDelete[i].Name)
       IN  /\ deletes' = [deletes EXCEPT ![i] = @ \o nr.requests]
           /\ taskErr' = [taskErr EXCEPT ![i] = nr.err]
           /\ task' = [task EXCEPT
                         ![i] = IF nr.err # Nil THEN "report"
                                ELSE "httpClient.Do"]
    /\ UNCHANGED <<pc, now, server, createdAtFetch, createdAtDelete,
                   configuredFilter, flagVars, forkedRepos, err, requests,
                   filterVars, outVars, toDelete, wg, errChan, closed>>

\* goroutine i: httpClient.Do returns, doRequest and deleteRepo return
Answer(i) ==
    /\ task[i] = "httpClient.Do"
    /\ \E resp \in DeleteResponses :
          LET e == doRequest(resp, FALSE).err
          IN  /\ taskErr' = [taskErr EXCEPT ![i] = e]
              /\ task' = [task EXCEPT
                            ![i] = IF e # Nil THEN "report" ELSE "exit"]
    /\ UNCHANGED <<pc, now, server, createdAtFetch, createdAtDelete,
                   configuredFilter, flagVars, forkedRepos, err, requests,
                   filterVars, outVars, toDelete, deletes, wg, errChan,
                   closed>>

ReportDropping(i) ==
    /\ task[i] = "report"
    /\ task' = [task EXCEPT ![i] = "exit"]
    /\ UNCHANGED <<pc, now, server, createdAtFetch, createdAtDelete,
                   configuredFilter, flagVars, forkedRepos, err,
                   requests, filterVars, outVars, toDelete, taskErr, deletes,
                   wg, errChan, closed>>

ReportBlocking(i) ==
    /\ task[i] = "report"
    /\ Len(errChan) < ErrChanCap
    /\ errChan' = Append(errChan, taskErr[i])
    /\ task' = [task EXCEPT ![i] = "exit"]
    /\ UNCHANGED <<pc, now, server, createdAtFetch, createdAtDelete,
                   configuredFilter, flagVars, forkedRepos, err, requests,
                   filterVars, outVars, toDelete, taskErr, deletes, wg, closed>>

ReportOverwrite(i) ==
    /\ task[i] = "report"
    /\ errChan' = <<taskErr[i]>>
    /\ task' = [task EXCEPT ![i] = "exit"]
    /\ UNCHANGED <<pc, now, server, createdAtFetch, createdAtDelete,
                   configuredFilter, flagVars, forkedRepos, err,
                   requests, filterVars, outVars, toDelete, taskErr, deletes,
                   wg, closed>>

\* goroutine i: select { case errChan <- err: default: }
Report(i) ==
    /\ task[i] = "report"
    /\ IF closed
       THEN /\ pc' = "panic"
            /\ UNCHANGED errChan
       ELSE /\ errChan' = IF Len(errChan) < ErrChanCap
                          THEN Append(errChan, taskErr[i]) ELSE errChan
            /\ UNCHANGED pc
    /\ task' = [task EXCEPT ![i] = "exit"]
    /\ UNCHANGED <<now, server, createdAtFetch, createdAtDelete,
                   configuredFilter, flagVars, forkedRepos, err, requests,
                   filterVars, outVars, toDelete, taskErr, deletes, wg, closed>>

\* goroutine i: the deferred wg.Done()
Done(i) ==
    /\ task[i] = "exit"
    /\ wg' = wg - 1
    /\ task' = [task EXCEPT ![i] = "done"]
    /\ UNCHANGED <<pc, now, server, createdAtFetch, createdAtDelete,
                   configuredFilter, flagVars, forkedRepos, err, requests,
                   filterVars, outVars, toDelete, taskErr, deletes, errChan,
                   closed>>

WaitNotWaiting ==
    /\ pc = "deleteRepos"
    /\ Unborn = {}
    /\ pc' = "close"
    /\ UNCHANGED <<now, server, createdAtFetch, createdAtDelete,
                   configuredFilter, flagVars, forkedRepos, err, requests,
                   filterVars, outVars, deleteVars>>

\* the loop is over and wg.Wait() returns: the counter is zero
Wait ==
    /\ pc = "deleteRepos"
    /\ Unborn = {}
    /\ wg = 0
    /\ pc' = "close"
    /\ UNCHANGED <<now, server, createdAtFetch, createdAtDelete,
                   configuredFilter, flagVars, forkedRepos, err, requests,
                   filterVars, outVars, deleteVars>>

\* close(errChan)
Close ==
    /\ pc = "close"
    /\ closed' = TRUE
    /\ pc' = "collect"
    /\ UNCHANGED <<now, server, createdAtFetch, createdAtDelete,
                   configuredFilter, flagVars, forkedRepos, err, requests,
                   filterVars, outVars, toDelete, task, taskErr, deletes, wg,
                   errChan>>

CollectNil ==
    /\ pc = "collect"
    /\ err' = Nil
    /\ pc' = "deleted"
    /\ UNCHANGED <<now, server, createdAtFetch, createdAtDelete,
                   configuredFilter, flagVars, forkedRepos, requests,
                   filterVars, outVars, deleteVars>>

\* if len(errChan) > 0 { return <-errChan }; return nil
Collect ==
    /\ pc = "collect"
    /\ IF Len(errChan) > 0
       THEN /\ err' = Head(errChan)
            /\ errChan' = Tail(errChan)
       ELSE /\ err' = Nil
            /\ UNCHANGED errChan
    /\ pc' = "deleted"
    /\ UNCHANGED <<now, server, createdAtFetch, createdAtDelete,
                   configuredFilter, flagVars, forkedRepos, requests, filterVars,
                   outVars, toDelete, task, taskErr, deletes, wg, closed>>

----------------------------------------------------------------------------
(* Calls of deleteRepos on bounded lists.                                  *)

\* the records of the lists: two forks of the owner, and one whose name
\* holds a control character, which url.Parse rejects
DeleteRecords ==
    {MkRepo(n, TRUE, ZeroTime, ZeroTime, ZeroTime) :
        n \in {<<"a">>, <<"B">>, <<"a", "U+007F">>}}

InitDeleteRepos ==
    /\ pc = "deleteRepos"
    /\ now = Present
    /\ server = <<>>
    /\ parseResult = "nil"
    /\ flagErrorHandling = "ExitOnError"
    /\ version = FALSE
    /\ owner = OwnerLogin
    /\ token = <<"t">>
    /\ delete = TRUE
    /\ perPage = DefaultPerPage
    /\ maxPage = 0
    /\ olderThanDays = 0
    /\ protectedRepos = <<>>
    /\ forkedRepos = <<>>
    /\ err = Nil
    /\ requests = <<>>
    /\ unguardedRepos = <<>>
    /\ guardedRepos = <<>>
    /\ updatedAtSplit = <<<<>>, <<>>>>
    /\ createdAtFetch = NoFetch
    /\ createdAtDelete = <<>>
    /\ configuredFilter = "nil"
    /\ stdout = <<>>
    /\ stderr = <<>>
    /\ exitCode = NoExit
    /\ toDelete \in SeqsFromTo(DeleteRecords, 1, MaxForks)
    /\ task = [i \in DOMAIN toDelete |-> "unborn"]
    /\ taskErr = [i \in DOMAIN toDelete |-> Nil]
    /\ deletes = [i \in DOMAIN toDelete |-> <<>>]
    /\ wg = 0
    /\ errChan = <<>>
    /\ closed = FALSE

NextDeleteRepos ==
    \/ Spawn
    \/ \E i \in DOMAIN task : DeleteRepo(i)
    \/ \E i \in DOMAIN task : Answer(i)
    \/ \E i \in DOMAIN task : Report(i)
    \/ \E i \in DOMAIN task : Done(i)
    \/ Wait
    \/ Close
    \/ Collect

SpecDeleteRepos == InitDeleteRepos /\ [][NextDeleteRepos]_vars

----------------------------------------------------------------------------
(* Calls of deleteRepo, both revisions.                                    *)

\* the createdAt revision: fmt.Sprintf("%s/repos%s/%s", baseURL, owner, name)
DeleteURLCreatedAt(baseURL, ownerName, name) ==
    baseURL \o <<"/repos">> \o ownerName \o <<"/">> \o name

\* returns [requests, err]
deleteRepoCreatedAt(baseURL, ownerName, name, resp) ==
    LET e == urlParseError(ownerName \o <<"/">> \o name)
    IN  IF e # Nil THEN [requests |-> <<>>, err |-> e]
        ELSE [requests |->
                  <<DeleteRequest(DeleteURLCreatedAt(baseURL, ownerName, name))>>,
              err |-> doRequestCreatedAt(resp, FALSE).err]

\* owners: plain ones, one with an escaped character, two that url.Parse
\* rejects (a "%" without two hexadecimal digits, a control character), and
\* two that start a fragment (a control character in it passes, a "%"
\* without two hexadecimal digits does not)
DeleteOwners ==
    {<<"o">>, <<"p">>, <<"o", "p">>, <<"%", "4", "f">>, <<"%", "z", "z">>,
     <<"o", "U+007F">>, <<"o", "#", "U+007F">>, <<"#", "%", "U+007F">>}

\* deleteRepo is called with the owner in `owner` and the name of the one
\* record of toDelete
InitDelete ==
    /\ pc = "deleteRepo"
    /\ now = Present
    /\ server \in {<<resp>> : resp \in DeleteResponses}
    /\ parseResult = "nil"
    /\ flagErrorHandling = "ExitOnError"
    /\ version = FALSE
    /\ owner \in DeleteOwners
    /\ token = <<"t">>
    /\ delete = TRUE
    /\ perPage = DefaultPerPage
    /\ maxPage = 0
    /\ olderThanDays = 0
    /\ protectedRepos = <<>>
    /\ forkedRepos = <<>>
    /\ err = Nil
    /\ requests = <<>>
    /\ unguardedRepos = <<>>
    /\ guardedRepos = <<>>
    /\ updatedAtSplit = <<<<>>, <<>>>>
    /\ createdAtFetch = NoFetch
    /\ createdAtDelete = <<>>
    /\ configuredFilter = "nil"
    /\ stdout = <<>>
    /\ stderr = <<>>
    /\ exitCode = NoExit
    /\ \E name \in Names :
          toDelete = <<MkRepo(name, TRUE, ZeroTime, ZeroTime, ZeroTime)>>
    /\ task = <<>>
    /\ taskErr = <<>>
    /\ deletes = <<<<>>>>
    /\ wg = 0
    /\ errChan = <<>>
    /\ closed = FALSE

\* both revisions of deleteRepo issue their request and get the answer
DeleteOne ==
    /\ pc = "deleteRepo"
    /\ LET r == deleteRepo(BaseURL, owner, toDelete[1].Name, server[1])
           old == deleteRepoCreatedAt(BaseURL, owner, toDelete[1].Name, server[1])
       IN  /\ deletes' = [deletes EXCEPT ![1] = @ \o r.requests]
           /\ createdAtDelete' = createdAtDelete \o old.requests
           /\ err' = r.err
    /\ pc' = "deleteRepo returned"
    /\ UNCHANGED <<now, server, createdAtFetch, configuredFilter, flagVars,
                   forkedRepos, requests, filterVars, outVars, toDelete, task,
                   taskErr, wg, errChan, closed>>

NextDelete == DeleteOne

SpecDelete == InitDelete /\ [][NextDelete]_vars

----------------------------------------------------------------------------
(* cliConfig.CLI with the default fetchForkedRepos and deleteRepos.        *)

exitOk == 0
exitErr == 1

ErrMsg401 == StatusError(StatusUnauthorized)
ErrMsg403 == StatusError(StatusForbidden)
ErrMsg404 == StatusError(StatusNotFound)

\* a written line: its fixed text, the string and the status code put in it
Line(text, arg, code) == [text |-> text, arg |-> arg, code |-> code]

Say(text) == Line(text, <<>>, 0)

\* fmt.Fprintf(w, "Error: %s\n", err)
ErrorLine(e) == Line("Error: %s", <<e.text>>, e.code)

ListingNothing(list) == <<>>

\* fmt.Fprintf(stdout, "    - %s\n", repo.URL) for each repo
Listing(list) == [i \in DOMAIN list |-> Line("    - %s", list[i].URL, 0)]

ExitFailing(code) ==
    /\ exitCode' = exitErr
    /\ pc' = "exit"

Exit(code) ==
    /\ exitCode' = code
    /\ pc' = "exit"

missingRequiredOwnerOnly(o, t) == o = <<>>

\* owner == "" || token == ""
missingRequired(o, t) == o = <<>> \/ t = <<>>

\* the filter the tests configure with withFilterForkedRepos: every record is
\* unguarded; returns <<unguarded, guarded>>
mockFilterForkedRepos(repos, guardedRepoNames, days) == <<repos, <<>>>>

\* what the field filterForkedRepos of the cliConfig can hold: the nil that
\* NewCLIConfig leaves, or the function given to withFilterForkedRepos
ConfiguredFilters == {"nil", "mockFilterForkedRepos"}

exitFlagError == 2   \* the status of os.Exit in fs.Parse on a flag error

\* the values of flag.ErrorHandling that withFlagErrorHandling can set
FlagErrorHandlings == {"ContinueOnError", "ExitOnError", "PanicOnError"}

\* what fs.Parse writes to the output of the flag set, which is stdout:
\* nothing, the usage (for -h or -help), or the error and the usage
parseOutput(result) ==
    CASE result = "nil" -> <<>>
      [] result = "flag.ErrHelp" ->
           <<Say("Usage of fork-sweeper:"), Say("PrintDefaults")>>
      [] OTHER ->
           <<Say("flag error"), Say("Usage of fork-sweeper:"),
             Say("PrintDefaults")>>

\* fs.Parse(args), then the version is printed or the required arguments
\* are validated.  A failing fs.Parse writes its output and then, with
\* flag.ExitOnError, ends the process by os.Exit; with flag.PanicOnError it
\* panics with the error, and CLI returns nothing; with flag.ContinueOnError
\* it returns the error, which CLI drops, going on with the flags parsed so
\* far.
CLIStart ==
    /\ pc = "cli"
    /\ LET out == stdout \o parseOutput(parseResult)
       IN  IF parseResult # "nil" /\ flagErrorHandling = "ExitOnError"
           THEN /\ stdout' = out
                /\ UNCHANGED stderr
                /\ exitCode' = IF parseResult = "flag.ErrHelp" THEN exitOk
                               ELSE exitFlagError
                /\ pc' = "os.Exit"
           ELSE IF parseResult # "nil" /\ flagErrorHandling = "PanicOnError"
           THEN /\ stdout' = out
                /\ UNCHANGED <<stderr, exitCode>>
                /\ pc' = "panic"
           ELSE IF version
           THEN /\ stdout' = Append(out, Say("version"))
                /\ UNCHANGED stderr
                /\ Exit(exitOk)
           ELSE IF missingRequired(owner, token)
           THEN /\ stderr' = Append(stderr,
                                    Say("Error: owner and token are required"))
                /\ stdout' = Append(out, Say("PrintDefaults"))
                /\ Exit(exitErr)
           ELSE /\ stdout' = Append(out,
                        Line("Fetching forked repositories for %s...", owner, 0))
                /\ UNCHANGED <<stderr, exitCode>>
                /\ pc' = "fetching"
    /\ UNCHANGED <<now, server, createdAtFetch, createdAtDelete,
                   configuredFilter, flagVars, forkedRepos, err, requests,
                   filterVars, deleteVars>>

fetchErrorLineSwapped(e) ==
    CASE e = ErrMsg404 -> Say("Error: invalid token")
      [] e = ErrMsg401 -> Say("Error: user not found")
      [] OTHER -> ErrorLine(e)

\* the line CLI writes for an error of fetchForkedRepos
fetchErrorLine(e) ==
    CASE e = ErrMsg404 -> Say("Error: user not found")
      [] e = ErrMsg401 -> Say("Error: invalid token")
      [] OTHER -> ErrorLine(e)

afterFetchIgnoringError(e, list) ==
    IF Len(list) = 0 THEN "no forks" ELSE "filter"

\* what CLI does with the result of fetchForkedRepos
afterFetch(e, list) ==
    IF e # Nil THEN "error"
    ELSE IF Len(list) = 0 THEN "no forks"
    ELSE "filter"

\* the answers of the server in a run of the CLI: at most one entry a page
CliResponses == {r \in Responses : Len(r.body) <= 1}

\* fetchForkedRepos is called and its result handled; the server answers the
\* pages 1..maxPage, the only ones the call can ask for, in any way it may
CLIFetch ==
    /\ pc = "fetching"
    /\ \E srv \in [1..maxPage -> CliResponses] :
          LET res == fetchForkedRepos(srv, owner, perPage, maxPage)
          IN  /\ Len(res.repos) <= MaxForks
              /\ forkedRepos' = res.repos
              /\ err' = res.err
              /\ requests' = requests \o res.requests
              /\ IF afterFetch(res.err, res.repos) = "error"
                 THEN /\ stderr' = Append(stderr, fetchErrorLine(res.err))
                      /\ UNCHANGED stdout
                      /\ Exit(exitErr)
                 ELSE IF afterFetch(res.err, res.repos) = "no forks"
                 THEN /\ stdout' = Append(stdout, Say("No forked repositories found"))
                      /\ UNCHANGED stderr
                      /\ Exit(exitOk)
                 ELSE /\ UNCHANGED <<stdout, stderr, exitCode>>
                      /\ pc' = "filtering"
    /\ UNCHANGED <<now, server, createdAtFetch, createdAtDelete,
                   configuredFilter, flagVars, filterVars, deleteVars>>

afterListingIgnoringFlag(del, unguarded) ==
    IF Len(unguarded) = 0 THEN "nothing to delete" ELSE "deleteRepos"

afterListingAlwaysDeleting(del, unguarded) ==
    IF ~del THEN "return" ELSE "deleteRepos"

\* what CLI does once the two lists are printed
afterListing(del, unguarded) ==
    IF ~del THEN "return"
    ELSE IF Len(unguarded) = 0 THEN "nothing to delete"
    ELSE "deleteRepos"

\* the forks are partitioned and listed; deleteRepos is entered if asked for
CLIFilter ==
    /\ pc = "filtering"
    /\ LET out == filterForkedRepos(forkedRepos, protectedRepos,
                                    olderThanDays, now)
           listed == stdout
                     \o <<Say("Guarded forked repos [won't be deleted]:")>>
                     \o Listing(out[2])
                     \o <<Say("Unguarded forked repos [will be deleted]:")>>
                     \o Listing(out[1])
       IN  /\ unguardedRepos' = out[1]
           /\ guardedRepos' = out[2]
           /\ IF afterListing(delete, out[1]) = "return"
              THEN /\ stdout' = listed
                   /\ Exit(exitOk)
                   /\ UNCHANGED deleteVars
              ELSE IF afterListing(delete, out[1]) = "nothing to delete"
              THEN /\ stdout' = Append(listed,
                          Say("No unguarded forked repositories to delete"))
                   /\ Exit(exitOk)
                   /\ UNCHANGED deleteVars
              ELSE /\ stdout' = Append(listed,
                          Say("Deleting forked repositories..."))
                   /\ CallDeleteRepos(out[1])
                   /\ pc' = "deleteRepos"
                   /\ UNCHANGED exitCode
    /\ UNCHANGED <<now, server, createdAtFetch, createdAtDelete,
                   configuredFilter, flagVars, forkedRepos, err, requests,
                   updatedAtSplit, stderr>>

\* the line CLI writes for an error of deleteRepos
deleteErrorLine(e) ==
    CASE e = ErrMsg403 ->
           Say("Error: token does not have permission to delete repos")
      [] e = ErrMsg404 -> Say("Error: repo not found")
      [] OTHER -> ErrorLine(e)

\* the result of deleteRepos is handled
CLIFinish ==
    /\ pc = "deleted"
    /\ IF err # Nil
       THEN /\ stderr' = Append(stderr, deleteErrorLine(err))
            /\ UNCHANGED stdout
            /\ Exit(exitErr)
       ELSE /\ stdout' = Append(stdout, Say("Forks deleted successfully"))
            /\ UNCHANGED stderr
            /\ Exit(exitOk)
    /\ UNCHANGED <<now, server, createdAtFetch, createdAtDelete,
                   configuredFilter, flagVars, forkedRepos, err, requests,
                   filterVars, deleteVars>>

\* the guard lists of the runs: none, a matching entry, a blank entry
CliGuardLists == {<<>>, <<<<"b">>>>, <<<<" ">>>>}

\* owners given to the runs: none, the owner of the forks, and one that
\* makes the URL of the listing unparsable
CliOwners == {<<>>, OwnerLogin, <<"%", "z", "z">>}

\* The runs whose arguments parse take every combination of the flags, and
\* --older-than-days up to MaxDays.  Of the runs whose arguments do not
\* parse, under each of the three error handlings of a flag set, those that
\* go on (with flag.ContinueOnError) do so without guards, with the cutoff
\* now, and with at most one page.  The runs whose
\* --older-than-days exceeds a time.Duration have no guards and at most one
\* page.
Init ==
    /\ pc = "cli"
    /\ server = <<>>
    /\ version \in BOOLEAN
    /\ owner \in CliOwners
    /\ token \in {<<>>, <<"t">>}
    /\ perPage = DefaultPerPage
    /\ delete \in BOOLEAN
    /\ \/ /\ parseResult = "nil"
          /\ flagErrorHandling = "ExitOnError"
          /\ now = Present
          /\ maxPage \in (-1)..MaxPage
          /\ olderThanDays \in 0..MaxDays
          /\ protectedRepos \in CliGuardLists
          /\ configuredFilter \in ConfiguredFilters
       \/ /\ parseResult \in {"flag.ErrHelp", "error"}
          /\ flagErrorHandling \in FlagErrorHandlings
          /\ now = Present
          /\ maxPage \in 0..1
          /\ olderThanDays = 0
          /\ protectedRepos = <<>>
          /\ configuredFilter = "nil"
       \/ /\ parseResult = "nil"
          /\ flagErrorHandling = "ExitOnError"
          /\ now = LatePresent
          /\ maxPage \in 0..1
          /\ olderThanDays = WrapDays
          /\ protectedRepos = <<>>
          /\ configuredFilter = "nil"
    /\ forkedRepos = <<>>
    /\ err = Nil
    /\ requests = <<>>
    /\ unguardedRepos = <<>>
    /\ guardedRepos = <<>>
    /\ updatedAtSplit = <<<<>>, <<>>>>
    /\ createdAtFetch = NoFetch
    /\ createdAtDelete = <<>>
    /\ QuietInit

Next ==
    \/ CLIStart
    \/ CLIFetch
    \/ CLIFilter
    \/ Spawn
    \/ \E i \in DOMAIN task : DeleteRepo(i)
    \/ \E i \in DOMAIN task : Answer(i)
    \/ \E i \in DOMAIN task : Report(i)
    \/ \E i \in DOMAIN task : Done(i)
    \/ Wait
    \/ Close
    \/ Collect
    \/ CLIFinish

Spec == Init /\ [][Next]_vars

\* a step that can be taken is taken: the runtime runs every runnable
\* goroutine, and every request ends, at the latest by the client's timeout
FairSpec == Init /\ [][Next]_vars /\ WF_vars(Next)

----------------------------------------------------------------------------
(* Vocabulary of the properties.                                           *)

Range(s) == {s[i] : i \in DOMAIN s}

Count(s, x) == Cardinality({i \in DOMAIN s : s[i] = x})

\* two characters that differ at most in case
SameLetter(c, d) ==
    \/ c = d
    \/ \E i \in DOMAIN UpperCase : {c, d} = {UpperCase[i], LowerCase[i]}

\* an entry that is empty or made of white space only
Blank(entry) ==
    \A j \in DOMAIN entry : entry[j] \in {" ", "\t", "\n", "\r", "\f"}

\* entry occurs in name at some offset, letter case disregarded
ContainsIgnoringCase(name, entry) ==
    \E off \in 0..(Len(name) - Len(entry)) :
        \A j \in DOMAIN entry : SameLetter(name[off + j], entry[j])

\* name contains, case-insensitively, a non-blank entry of the guard list
MatchesGuard(name, guards) ==
    \E k \in DOMAIN guards :
        ~Blank(guards[k]) /\ ContainsIgnoringCase(name, guards[k])

Cutoff == now - olderThanDays

AllStale(r) ==
    /\ r.CreatedAt < Cutoff
    /\ r.UpdatedAt < Cutoff
    /\ r.PushedAt < Cutoff

DropBlank(guards) == SelectSeq(guards, LAMBDA e : ~Blank(e))

----------------------------------------------------------------------------
(* Properties of the CLI run.                                              *)

\* the DELETE requests issued so far, by any goroutine
IssuedDeletes == UNION {Range(deletes[i]) : i \in DOMAIN deletes}

RepoDelete(r) == DeleteRequest(DeleteURL(BaseURL, r.Owner, r.Name))

\* the run got past its fetch and the fetch returned no error (err holds the
\* error of the fetch until deleteRepos, entered with tasks, returns its own)
FetchSucceeded ==
    /\ pc \notin {"cli", "fetching"}
    /\ \E i \in DOMAIN stdout :
           stdout[i].text = "Fetching forked repositories for %s..."
    /\ err = Nil \/ task # <<>>

StrictlyRecent(r) ==
    \/ r.CreatedAt > Cutoff
    \/ r.UpdatedAt > Cutoff
    \/ r.PushedAt > Cutoff

\* C1: a run without the delete flag never enters deleteRepos and issues no
\* DELETE request, and it exits 0 once its fetch has succeeded
C1_NoDeleteWithoutFlag ==
    ~delete =>
        /\ IssuedDeletes = {}
        /\ task = <<>>
        /\ pc \in {"cli", "os.Exit", "panic", "fetching", "filtering", "exit"}
        /\ (pc = "exit" /\ FetchSucceeded) => exitCode = exitOk

\* a run without the flag that listed an unguarded fork and exited
C1_Witness ==
    /\ ~delete
    /\ pc = "exit"
    /\ Len(unguardedRepos) > 0
    /\ exitCode = exitOk
    /\ IssuedDeletes = {}

\* C2: every DELETE request is for a record of the unguarded output of the
\* filter, and no record of the guarded output gets one: none with a matching
\* guard entry and, in a run whose cutoff is the instant olderThanDays days
\* before now, none with activity after the cutoff
C2_DeletesOnlyUnguarded ==
    /\ \A d \in IssuedDeletes :
           \E r \in Range(unguardedRepos) : d = RepoDelete(r)
    /\ \A r \in Range(guardedRepos) : RepoDelete(r) \notin IssuedDeletes
    /\ \A r \in Range(forkedRepos) :
           (\/ StrictlyRecent(r) /\ cutOffDate(now, olderThanDays) = Cutoff
            \/ MatchesGuard(r.Name, protectedRepos)) =>
               RepoDelete(r) \notin IssuedDeletes

\* a run that kept a guarded fork and issued the DELETE of an unguarded one
C2_Witness ==
    /\ delete
    /\ pc = "exit"
    /\ Len(guardedRepos) > 0
    /\ IssuedDeletes # {}
    /\ \A r \in Range(unguardedRepos) : RepoDelete(r) \in IssuedDeletes

\* the run ended in its fetch: fetchForkedRepos returned an error (err is
\* the error of the fetch as long as deleteRepos was not entered)
FetchFailed ==
    /\ pc = "exit"
    /\ \E i \in DOMAIN stdout :
           stdout[i].text = "Fetching forked repositories for %s..."
    /\ err # Nil
    /\ task = <<>>

ListingTexts ==
    {"Guarded forked repos [won't be deleted]:",
     "Unguarded forked repos [will be deleted]:", "    - %s"}

\* C15: a run whose fetch failed exits 1 and has neither filtered, nor listed,
\* nor issued a DELETE request, with or without the delete flag
C15_FetchFailureAborts ==
    FetchFailed =>
        /\ exitCode = exitErr
        /\ unguardedRepos = <<>>
        /\ guardedRepos = <<>>
        /\ \A i \in DOMAIN stdout : stdout[i].text \notin ListingTexts
        /\ toDelete = <<>>
        /\ IssuedDeletes = {}

\* with the delete flag, page 1 was fetched and the request for page 2 failed
C15_Witness ==
    /\ FetchFailed
    /\ delete
    /\ Len(requests) = 2
    /\ err = ErrMsg404
    /\ exitCode = exitErr

\* the two headers and the lines of the guarded and the unguarded forks
FullListing ==
    <<Say("Guarded forked repos [won't be deleted]:")>>
    \o [i \in DOMAIN guardedRepos |-> Line("    - %s", guardedRepos[i].URL, 0)]
    \o <<Say("Unguarded forked repos [will be deleted]:")>>
    \o [i \in DOMAIN unguardedRepos |->
            Line("    - %s", unguardedRepos[i].URL, 0)]

ListingWritten ==
    \E off \in 0..(Len(stdout) - Len(FullListing)) :
        SubSeq(stdout, off + 1, off + Len(FullListing)) = FullListing

\* the run fetched forks and is past its filter
ReportingReached ==
    /\ pc \notin {"cli", "fetching", "filtering"}
    /\ FetchSucceeded
    /\ forkedRepos # <<>>

\* C20: once a DELETE request is issued the whole listing has been written,
\* and a run past its filter has written it with or without the delete flag
C20_ListingBeforeDeletes ==
    /\ IssuedDeletes # {} => ListingWritten
    /\ task # <<>> => ListingWritten
    /\ ReportingReached => ListingWritten

\* a DELETE is out while deleteRepos still runs, after a listing of both kinds
C20_Witness ==
    /\ pc = "deleteRepos"
    /\ IssuedDeletes # {}
    /\ guardedRepos # <<>>
    /\ unguardedRepos # <<>>
    /\ ListingWritten

----------------------------------------------------------------------------
(* Properties of deleteRepos.                                              *)

\* deleteRepos was entered and wg.Wait() has returned
Waited == task # <<>> /\ pc \in {"close", "collect", "deleted", "exit"}

\* deleteRepos was entered and has returned
Returned == task # <<>> /\ pc \in {"deleted", "exit"}

\* the owner and the name of the record make a URL that url.Parse accepts
Deletable(r) == urlParseError(r.Owner \o <<"/">> \o r.Name) = Nil

\* the requests a finished goroutine has issued for its record
ExpectedDeletes(r) == IF Deletable(r) THEN <<RepoDelete(r)>> ELSE <<>>

\* C17 (as amended): each record whose owner and name make a valid URL gets
\* one DELETE request, its own, whatever its siblings did; a record whose URL
\* cannot be built gets none, and its deletion fails; no goroutine is ever
\* blocked; and deleteRepos gets past wg.Wait() only when every goroutine has
\* issued its request, if it has one, and finished
C17_EveryRecordDeleted ==
    /\ \A i \in DOMAIN deletes :
           /\ deletes[i] \in {<<>>, ExpectedDeletes(toDelete[i])}
           /\ task[i] \in {"httpClient.Do", "report", "exit", "done"} =>
                  deletes[i] = ExpectedDeletes(toDelete[i])
           /\ (task[i] \in {"report", "exit", "done"}
                 /\ ~Deletable(toDelete[i])) => taskErr[i] # Nil
           /\ task[i] = "deleteRepo" => ENABLED DeleteRepo(i)
           /\ task[i] = "httpClient.Do" => ENABLED Answer(i)
           /\ task[i] = "report" => ENABLED Report(i)
           /\ task[i] = "exit" => ENABLED Done(i)
    /\ Waited =>
           \A i \in DOMAIN toDelete :
               /\ task[i] = "done"
               /\ deletes[i] = ExpectedDeletes(toDelete[i])

\* two records: the URL of the first could not be built, the second was
\* deleted
C17_Witness ==
    /\ Returned
    /\ Len(toDelete) = 2
    /\ ~Deletable(toDelete[1])
    /\ deletes[1] = <<>>
    /\ taskErr[1] # Nil
    /\ taskErr[2] = Nil
    /\ deletes[2] = <<RepoDelete(toDelete[2])>>

\* C17 as stated: every record of the list has got exactly one DELETE
\* request, its own, when deleteRepos gets past wg.Wait()
C17_OneDeletePerRecord ==
    Waited =>
        \A i \in DOMAIN toDelete :
            /\ task[i] = "done"
            /\ deletes[i] = <<RepoDelete(toDelete[i])>>

\* C18: deleteRepos returns a failure exactly when some deleteRepo call of
\* the batch failed, and then the failure of one of those calls
C18_FailureIffSomeFailed ==
    Returned =>
        /\ err # Nil <=> \E i \in DOMAIN taskErr : taskErr[i] # Nil
        /\ err # Nil => \E i \in DOMAIN taskErr : taskErr[i] = err

\* two different failures; the one of the second record is returned
C18_Witness ==
    /\ Returned
    /\ Len(toDelete) = 2
    /\ taskErr[1] # Nil
    /\ taskErr[2] # Nil
    /\ taskErr[1] # taskErr[2]
    /\ err = taskErr[2]

\* C19: errChan holds at most one failure; a reporting goroutine is never
\* blocked; its report is stored if the slot is empty and dropped otherwise;
\* a stored failure stays as it is until deleteRepos reads it
C19_SlotHoldsFirstFailure ==
    /\ [](/\ Len(errChan) <= 1
          /\ \A i \in DOMAIN task : task[i] = "report" => ENABLED Report(i))
    /\ [][/\ (errChan # <<>> /\ pc # "collect") => errChan' = errChan
          /\ \A i \in DOMAIN task :
                 (task[i] = "report" /\ task'[i] # "report") =>
                     errChan' = IF errChan = <<>> THEN <<taskErr[i]>>
                                ELSE errChan]_vars

\* the slot holds one failure and the different failure of a sibling that
\* has reported is not in it
C19_Witness ==
    /\ Len(errChan) = 1
    /\ \E i \in DOMAIN task :
           /\ task[i] \in {"exit", "done"}
           /\ taskErr[i] # Nil
           /\ taskErr[i] # errChan[1]

----------------------------------------------------------------------------
(* Properties of filterForkedRepos.                                        *)

\* C3: the two outputs of filterForkedRepos share no record, and every record
\* occurs in them together exactly as often as it occurs in the input
C3_Partition ==
    pc = "filtered" =>
        /\ Range(unguardedRepos) \cap Range(guardedRepos) = {}
        /\ \A r \in Range(forkedRepos) \cup Range(unguardedRepos)
                    \cup Range(guardedRepos) :
               Count(unguardedRepos, r) + Count(guardedRepos, r)
                   = Count(forkedRepos, r)

C3_Witness ==
    /\ pc = "filtered"
    /\ Len(forkedRepos) = 2
    /\ Len(unguardedRepos) = 1
    /\ Len(guardedRepos) = 1

\* C4: a record whose name contains, case-insensitively, a non-blank guard
\* entry is in the guarded output, whatever its timestamps
C4_GuardedByName ==
    pc = "filtered" =>
        \A i \in DOMAIN forkedRepos :
            MatchesGuard(forkedRepos[i].Name, protectedRepos) =>
                /\ forkedRepos[i] \in Range(guardedRepos)
                /\ forkedRepos[i] \notin Range(unguardedRepos)

\* a stale fork "aB" guarded by the second entry "b" of a two-entry list
C4_Witness ==
    /\ pc = "filtered"
    /\ Len(forkedRepos) = 1
    /\ AllStale(forkedRepos[1])
    /\ forkedRepos[1].Name = <<"a", "B">>
    /\ protectedRepos = <<<<" ">>, <<"b">>>>
    /\ guardedRepos = forkedRepos

\* C5: a record whose timestamps are all before the cutoff (zero timestamps
\* included) and whose name matches no guard entry is in the unguarded output
C5_StaleUnguarded ==
    pc = "filtered" =>
        \A i \in DOMAIN forkedRepos :
            (AllStale(forkedRepos[i])
             /\ ~MatchesGuard(forkedRepos[i].Name, protectedRepos)) =>
                /\ forkedRepos[i] \in Range(unguardedRepos)
                /\ forkedRepos[i] \notin Range(guardedRepos)

\* a fork with zero timestamps and a guard list that does not match it
C5_Witness ==
    /\ pc = "filtered"
    /\ Len(forkedRepos) = 1
    /\ forkedRepos[1].CreatedAt = ZeroTime
    /\ forkedRepos[1].UpdatedAt = ZeroTime
    /\ forkedRepos[1].PushedAt = ZeroTime
    /\ forkedRepos[1].Name = <<"a">>
    /\ protectedRepos = <<<<"b">>>>
    /\ unguardedRepos = forkedRepos

\* C6: blank guard entries guard nothing: the filter returns what it returns
\* for the guard list without its blank entries (both revisions)
C6_BlankNeverGuards ==
    pc = "filtered" =>
        /\ <<unguardedRepos, guardedRepos>> =
               filterForkedRepos(forkedRepos, DropBlank(protectedRepos),
                                 olderThanDays, now)
        /\ updatedAtSplit =
               filterForkedReposUpdatedAt(forkedRepos, DropBlank(protectedRepos),
                                          olderThanDays, now)

\* C7: a record with a timestamp at or after the cutoff is in the guarded
\* output
C7_RecentGuarded ==
    pc = "filtered" =>
        \A i \in DOMAIN forkedRepos :
            (\/ forkedRepos[i].CreatedAt >= Cutoff
             \/ forkedRepos[i].UpdatedAt >= Cutoff
             \/ forkedRepos[i].PushedAt >= Cutoff) =>
                forkedRepos[i] \in Range(guardedRepos)

\* C8: each output lists its records in the order of the input
C8_OrderPreserved ==
    pc = "filtered" =>
        /\ unguardedRepos =
               SelectSeq(forkedRepos, LAMBDA r : r \in Range(unguardedRepos))
        /\ guardedRepos =
               SelectSeq(forkedRepos, LAMBDA r : r \in Range(guardedRepos))

C8_Witness ==
    /\ pc = "filtered"
    /\ Len(unguardedRepos) = 2
    /\ unguardedRepos[1] # unguardedRepos[2]

----------------------------------------------------------------------------
(* Properties of fetchForkedReposPage and fetchForkedRepos.                *)

Min(a, b) == IF a <= b THEN a ELSE b

\* the error the request for page n ends with, Nil when it succeeds: the URL
\* cannot be built, no response arrives, the status is a failure, or the
\* body is no JSON array of repositories
PageFailure(n) ==
    LET resp == PageResponse(server, n)
    IN  IF urlParseError(owner) # Nil THEN urlParseError(owner)
        ELSE IF ~resp.transportOk THEN TransportError
        ELSE IF resp.status >= StatusBadRequest THEN StatusError(resp.status)
        ELSE IF ~resp.wellFormed THEN DecodeError
        ELSE IF \E i \in DOMAIN resp.body : "bool" \notin DOMAIN resp.body[i].fork
        THEN UnmarshalTypeError
        ELSE Nil

\* all entries, forks or not, the server serves on page n
RawPage(n) ==
    IF PageFailure(n) = Nil THEN decodeRepos(PageResponse(server, n).body)
    ELSE <<>>

\* the fork entries the server serves on page n, in the order it serves them
ServedForks(n) == SelectSeq(RawPage(n), LAMBDA x : x.IsFork)

\* the first page on which the server serves no fork
FirstForklessPage ==
    CHOOSE k \in 1..(Len(server) + 1) :
        /\ ServedForks(k) = <<>>
        /\ \A j \in 1..(k - 1) : ServedForks(j) # <<>>

\* the fork entries of pages 1..n, in page order
RECURSIVE ForksUpTo(_)
ForksUpTo(n) == IF n <= 0 THEN <<>> ELSE ForksUpTo(n - 1) \o ServedForks(n)

RequestsUpTo(n) == [i \in 1..n |-> GetRequest(i, perPage)]

\* the requests sent when the request for page k is the one that fails: the
\* one for page k is not sent when its URL cannot be built
RequestsUpToFailure(k) ==
    IF urlParseError(owner) # Nil THEN RequestsUpTo(k - 1) ELSE RequestsUpTo(k)

\* C9: every record that fetchForkedReposPage and fetchForkedRepos return is
\* a fork
C9_OnlyForks ==
    pc = "fetched" =>
        /\ \A n \in DOMAIN server :
               \A r \in Range(fetchForkedReposPage(owner, server[n]).repos) :
                   r.IsFork
        /\ \A r \in Range(forkedRepos) : r.IsFork

\* both pages hold a repository that is no fork, and forks were returned
C9_Witness ==
    /\ pc = "fetched"
    /\ err = Nil
    /\ Len(requests) > 1
    /\ \A n \in 1..2 :
           \E i \in DOMAIN server[n].body :
               server[n].body[i].fork = JsonBool(FALSE)
    /\ Len(forkedRepos) = 2

\* C10 as stated: a successful fetchForkedRepos (allowed at least one page)
\* requests the pages up to the first one without forks and returns the forks
\* of the pages before it
C10_StopsOnlyAtForklessPage ==
    (pc = "fetched" /\ err = Nil /\ maxPage >= 1) =>
        LET first == FirstForklessPage
        IN  /\ requests = RequestsUpTo(first)
            /\ forkedRepos = ForksUpTo(first - 1)

\* C10 amended: a successful fetchForkedRepos requests pages 1, 2, ... up to
\* the first page without forks or up to page maxPage, whichever comes first,
\* and returns the forks of the requested pages in page and within-page order
C10_StopsAtForklessPageOrCap ==
    (pc = "fetched" /\ err = Nil) =>
        LET first == FirstForklessPage
        IN  /\ requests = RequestsUpTo(Min(first, maxPage))
            /\ forkedRepos = ForksUpTo(Min(first - 1, maxPage))

\* a page of two different forks followed by an empty page, below the cap
C10_Witness ==
    /\ pc = "fetched"
    /\ err = Nil
    /\ maxPage = 2
    /\ Len(ServedForks(1)) = 2
    /\ ServedForks(1)[1] # ServedForks(1)[2]
    /\ server[2].body = <<>>
    /\ forkedRepos = ServedForks(1)
    /\ Len(requests) = 2

\* pages 1..n are all served without failure and none of them is empty
NonEmptyUpTo(n) ==
    \A j \in 1..n : PageFailure(j) = Nil /\ RawPage(j) # <<>>

\* the forks on page n that were created before the cutoff
OldForks(n) ==
    SelectSeq(RawPage(n), LAMBDA x : x.IsFork /\ x.CreatedAt < Cutoff)

\* C11: fetchForkedRepos requests no page beyond maxPage and at most maxPage
\* pages; with maxPage = 1 and two non-empty pages it returns the forks of
\* page 1
C11_NeverBeyondMaxPage ==
    pc = "fetched" =>
        /\ Len(requests) <= maxPage
        /\ \A i \in DOMAIN requests : requests[i].page <= maxPage
        /\ (maxPage = 1 /\ NonEmptyUpTo(2)) =>
               (err = Nil /\ forkedRepos = ServedForks(1))

\* the cap at 1 cuts off a second page that holds forks
C11_Witness ==
    /\ pc = "fetched"
    /\ maxPage = 1
    /\ ServedForks(1) # <<>>
    /\ ServedForks(2) # <<>>
    /\ requests = RequestsUpTo(1)
    /\ forkedRepos = ServedForks(1)

\* C12: a page that holds entries but no fork does not end the pagination:
\* the forks of the page after it are in the result
C12_StopsOnlyAtEmptyRawPage ==
    (pc = "fetched" /\ err = Nil) =>
        \A k \in 1..(maxPage - 1) :
            (NonEmptyUpTo(k + 1) /\ ServedForks(k) = <<>>) =>
                Range(ServedForks(k + 1)) \subseteq Range(forkedRepos)

\* C13: the createdAt revision returns every fork created before the cutoff
\* that lies on a page up to maxPage before the first empty page
C13_ReturnsEveryOldFork ==
    (pc = "fetched" /\ createdAtFetch.err = Nil) =>
        \A j \in 1..maxPage :
            NonEmptyUpTo(j) =>
                \A x \in Range(OldForks(j)) :
                    \E r \in Range(createdAtFetch.repos) : r.URL = x.URL

\* C14: when the request for page k fails, fetchForkedRepos (both revisions)
\* returns that failure and no record, and requests no page after k (page k
\* itself is not requested when its URL could not be built)
C14_FailureDiscardsAll ==
    pc = "fetched" =>
        /\ err # Nil => forkedRepos = <<>>
        /\ createdAtFetch.err # Nil => createdAtFetch.repos = <<>>
        /\ \A k \in 1..maxPage :
               PageFailure(k) # Nil =>
                   /\ (\A j \in 1..(k - 1) : ServedForks(j) # <<>>) =>
                          /\ err = PageFailure(k)
                          /\ forkedRepos = <<>>
                          /\ requests = RequestsUpToFailure(k)
                   /\ (\A j \in 1..(k - 1) : OldForks(j) # <<>>) =>
                          createdAtFetch = [repos |-> <<>>,
                                            err |-> PageFailure(k),
                                            requests |->
                                                RequestsUpToFailure(k)]

\* page 1 holds an old fork and the request for page 2 fails
C14_Witness ==
    /\ pc = "fetched"
    /\ maxPage = 2
    /\ OldForks(1) # <<>>
    /\ PageFailure(2) # Nil
    /\ err = PageFailure(2)
    /\ forkedRepos = <<>>
    /\ createdAtFetch.repos = <<>>
    /\ Len(requests) = 2

----------------------------------------------------------------------------
(* Properties of doRequest.                                                *)

\* the body is a JSON array one of whose objects has a "fork" that is no
\* boolean
IllTyped(resp) ==
    \E i \in DOMAIN resp.body : "bool" \notin DOMAIN resp.body[i].fork

\* C16: for a response with status >= 400 doRequest returns the failure that
\* carries the status and leaves the body alone; below 400 a body that is no
\* JSON, or whose values do not fit the result, is a decode failure when a
\* result is wanted; otherwise it succeeds, and decodes only when a result is
\* wanted
C16_DoRequest ==
    (pc \in {"returned(&repos)", "returned(nil)"} /\ server[1].transportOk) =>
        LET resp == server[1]
            want == pc = "returned(&repos)"
        IN  IF resp.status >= StatusBadRequest
            THEN /\ err = StatusError(resp.status)
                 /\ err.code = resp.status
                 /\ forkedRepos = <<>>
            ELSE IF want /\ ~resp.wellFormed
            THEN err = DecodeError /\ forkedRepos = <<>>
            ELSE IF want /\ IllTyped(resp)
            THEN err = UnmarshalTypeError
            ELSE /\ err = Nil
                 /\ forkedRepos = IF want THEN decodeRepos(resp.body) ELSE <<>>

\* a 404 whose body is no JSON, requested with a result target
C16_Witness ==
    /\ pc = "returned(&repos)"
    /\ server[1].transportOk
    /\ server[1].status = StatusNotFound
    /\ ~server[1].wellFormed
    /\ err = StatusError(StatusNotFound)

----------------------------------------------------------------------------
(* Properties of the exit code of cliConfig.CLI.                           *)

\* the required arguments are missing in a run that does not ask for the
\* version
ValidationFailed == ~version /\ (owner = <<>> \/ token = <<>>)

\* deleteRepos has returned and some DELETE request had failed
DeleteFailed == Returned /\ \E i \in DOMAIN taskErr : taskErr[i] # Nil

\* the arguments do not parse and the flag set ends the process for that
ParseExits == parseResult # "nil" /\ flagErrorHandling = "ExitOnError"

\* the arguments do not parse and the flag set panics for that
ParsePanics == parseResult # "nil" /\ flagErrorHandling = "PanicOnError"

\* the run is over: CLI has returned, or the process has exited or panicked
\* in fs.Parse
Ended == pc \in {"exit", "os.Exit", "panic"}

\* C21 (as amended): every run ends and takes no step after its end.  CLI
\* returns 0 or 1; when the arguments do not parse and the flag set is made
\* with flag.ExitOnError, the process exits in fs.Parse instead, with status
\* 0 if help was asked for and 2 otherwise; when they do not parse and the
\* flag set is made with flag.PanicOnError, fs.Parse panics and CLI returns
\* no exit code.  The exit code is set only at the end; exit code 1 is set
\* only by one of three steps: the validation of the required arguments
\* failing, the fetch returning an error, or deleteRepos having returned an
\* error
C21_ExitOnlyByFailure ==
    /\ <>Ended
    /\ [](pc = "exit" => exitCode \in {exitOk, exitErr})
    /\ [](pc = "os.Exit" =>
            /\ ParseExits
            /\ exitCode = IF parseResult = "flag.ErrHelp" THEN exitOk
                          ELSE exitFlagError)
    /\ [](pc = "panic" => ParsePanics /\ exitCode = NoExit)
    /\ [](~Ended => exitCode = NoExit)
    /\ [][ /\ ~Ended
           /\ exitCode' = exitErr =>
                \/ pc = "cli" /\ ValidationFailed
                \/ pc = "fetching" /\ err' # Nil
                \/ pc = "deleted" /\ err # Nil ]_vars

\* a run that ended with exit code 1 before it announced any fetch
C21_Witness ==
    /\ pc = "exit"
    /\ exitCode = exitErr
    /\ stdout = <<Say("PrintDefaults")>>
    /\ requests = <<>>

\* C21 as stated: every run ends with exit code 0 or 1, and exit code 1 is
\* set only by a step out of the fetch or out of the deletion
C21_FailedOnlyFromFetchOrDelete ==
    /\ <>Ended
    /\ [](Ended <=> exitCode \in {exitOk, exitErr})
    /\ [][ exitCode' = exitErr =>
                \/ pc = "fetching" /\ err' # Nil
                \/ pc = "deleted" /\ err # Nil ]_vars

\* the run ended for one of the reasons that make CLI return 0
EndedWell ==
    \/ version
    \/ FetchSucceeded /\ forkedRepos = <<>>
    \/ FetchSucceeded /\ forkedRepos # <<>> /\ ~delete
    \/ FetchSucceeded /\ forkedRepos # <<>> /\ delete
         /\ unguardedRepos = <<>>
    \/ Returned /\ \A i \in DOMAIN taskErr : taskErr[i] = Nil

\* C22 (as amended): a run from which CLI returned has exit code 1 exactly
\* when its validation failed, its fetch failed or a deletion failed, and
\* exit code 0 exactly in the other runs: version asked, no fork found, no
\* delete flag, nothing unguarded, or every deletion succeeded.  CLI does not
\* return when the arguments do not parse and the flag set is made with
\* flag.ExitOnError or flag.PanicOnError: with the first the process exits
\* in fs.Parse, with status 0 if help was asked for and 2 otherwise; with
\* the second fs.Parse panics and there is no exit code of CLI
C22_ExitCode ==
    /\ pc = "exit" =>
          /\ ~ParseExits
          /\ ~ParsePanics
          /\ exitCode = exitErr <=>
               (ValidationFailed \/ FetchFailed \/ DeleteFailed)
          /\ exitCode = exitOk <=> EndedWell
    /\ pc = "os.Exit" =>
          /\ ParseExits
          /\ exitCode = IF parseResult = "flag.ErrHelp" THEN exitOk
                        ELSE exitFlagError
    /\ pc = "panic" => ParsePanics /\ exitCode = NoExit
    /\ ParseExits => pc \in {"cli", "os.Exit"}
    /\ ParsePanics => pc \in {"cli", "panic"}

\* C22 as stated: a run that ended has exit code 1 when its validation
\* failed, its fetch failed or a deletion failed, and exit code 0 otherwise
C22_ExitCodeOneOrZero ==
    Ended =>
        exitCode = IF pc = "exit"
                      /\ (ValidationFailed \/ FetchFailed \/ DeleteFailed)
                   THEN exitErr ELSE exitOk

\* a run ended with exit code 1 though one of its two deletions succeeded
C22_Witness ==
    /\ pc = "exit"
    /\ exitCode = exitErr
    /\ DeleteFailed
    /\ Len(toDelete) = 2
    /\ \E i \in DOMAIN taskErr : taskErr[i] = Nil

\* the three messages for the status codes 404 and 401 of the fetch and 403
\* of the deletion
StatusMessages ==
    <<Say("Error: user not found"), Say("Error: invalid token"),
      Say("Error: token does not have permission to delete repos")>>

\* C23: a fetch that failed with status 404 writes the not-found message, one
\* that failed with 401 the invalid-token message, a deletion stage that
\* returned a 403 the permission message; each is the only line on stderr and
\* the run exits with code 1; the three messages differ; and with the 403
\* every record still got its DELETE request and every goroutine finished
C23_StatusMessages ==
    /\ FetchFailed /\ err = ErrMsg404 =>
           stderr = <<StatusMessages[1]>> /\ exitCode = exitErr
    /\ FetchFailed /\ err = ErrMsg401 =>
           stderr = <<StatusMessages[2]>> /\ exitCode = exitErr
    /\ pc = "exit" /\ Returned /\ err = ErrMsg403 =>
           /\ stderr = <<StatusMessages[3]>>
           /\ exitCode = exitErr
           /\ \A i \in DOMAIN toDelete :
                 deletes[i] = <<RepoDelete(toDelete[i])>> /\ task[i] = "done"
    /\ \A i, j \in 1..3 : i # j => StatusMessages[i] # StatusMessages[j]

\* a run whose deletion stage returned a 403 for one of two records, the other
\* deleted
C23_Witness ==
    /\ pc = "exit"
    /\ Returned
    /\ err = ErrMsg403
    /\ Len(toDelete) = 2
    /\ \E i \in DOMAIN taskErr : taskErr[i] = Nil
    /\ stderr = <<StatusMessages[3]>>

----------------------------------------------------------------------------
(* Further properties of deleteRepos and of the steps of CLI around it.    *)

\* C24: under the fairness of FairSpec, a call of deleteRepos, whatever its
\* goroutines are doing (not started, about to issue the request, waiting for
\* its answer, or holding an error to report), leads to the state where
\* every goroutine has finished and deleteRepos has returned; none stays at
\* the send to errChan
C24_DeleteReposTerminates ==
    (pc = "deleteRepos")
      ~> (pc = "deleted" /\ \A i \in DOMAIN task : task[i] = "done")

\* deleteRepos returned after each of its two requests had failed
C24_Witness ==
    /\ Returned
    /\ Len(toDelete) = 2
    /\ \A i \in DOMAIN taskErr : taskErr[i] # Nil
    /\ \A i \in DOMAIN task : task[i] = "done"

\* C25 (as amended): a run without owner or without token, version not
\* asked, announces no fetch, sends no request, filters nothing, lists
\* nothing, and never enters deleteRepos.  It goes from its start straight to
\* its end: CLI returns 1 and the one line on stderr is the error 'owner and
\* token are required', unless the arguments do not parse and the flag set
\* is made with flag.ExitOnError or flag.PanicOnError; then the process
\* exits in fs.Parse with status 0 or 2, or fs.Parse panics, with nothing on
\* stderr
C25_MissingRequired ==
    ValidationFailed =>
      /\ pc \in {"cli", "exit", "os.Exit", "panic"}
      /\ pc = "exit" =>
           /\ ~ParseExits
           /\ ~ParsePanics
           /\ stderr = <<Say("Error: owner and token are required")>>
           /\ exitCode = exitErr
      /\ pc = "os.Exit" =>
           /\ ParseExits
           /\ stderr = <<>>
           /\ exitCode \in {exitOk, exitFlagError}
      /\ pc = "panic" =>
           /\ ParsePanics
           /\ stderr = <<>>
           /\ exitCode = NoExit
      /\ requests = <<>>
      /\ forkedRepos = <<>>
      /\ unguardedRepos = <<>> /\ guardedRepos = <<>>
      /\ task = <<>> /\ toDelete = <<>>
      /\ IssuedDeletes = {}
      /\ \A i \in DOMAIN stdout :
           /\ stdout[i].text # "Fetching forked repositories for %s..."
           /\ stdout[i].text \notin ListingTexts

\* C25 as stated: a run without owner or without token, version not asked,
\* that has ended has written the error 'owner and token are required' and
\* has exit code 1, and has sent no request
C25_AlwaysRequiredError ==
    (ValidationFailed /\ Ended) =>
      /\ stderr = <<Say("Error: owner and token are required")>>
      /\ exitCode = exitErr
      /\ requests = <<>>
      /\ IssuedDeletes = {}

\* a run with an owner but no token, delete flag set, ended with exit code 1
C25_Witness ==
    /\ pc = "exit"
    /\ owner # <<>> /\ token = <<>>
    /\ ~version /\ delete
    /\ exitCode = exitErr

\* CLI wrote the line that precedes its call of deleteRepos
DeleteReposInvoked ==
    \E i \in DOMAIN stdout : stdout[i] = Say("Deleting forked repositories...")

\* C26: deleteRepos is entered only with the delete flag set and with a list
\* that is not empty, the unguarded list; and a run with the delete flag whose
\* fetch succeeded and that is past its filter with nothing unguarded has
\* ended with exit code 0, has not entered deleteRepos, has issued no DELETE
\* request, and its last line says that there was nothing to do
C26_NoDeleteWithoutUnguarded ==
    /\ (DeleteReposInvoked \/ task # <<>>
          \/ pc \in {"deleteRepos", "close", "collect", "deleted"}) =>
         /\ delete
         /\ toDelete # <<>>
         /\ toDelete = unguardedRepos
    /\ (delete /\ FetchSucceeded /\ pc # "filtering"
          /\ unguardedRepos = <<>>) =>
         /\ pc = "exit"
         /\ exitCode = exitOk
         /\ ~DeleteReposInvoked
         /\ task = <<>>
         /\ IssuedDeletes = {}
         /\ stderr = <<>>
         /\ stdout[Len(stdout)] =
              IF forkedRepos = <<>>
              THEN Say("No forked repositories found")
              ELSE Say("No unguarded forked repositories to delete")

\* a run with the delete flag that fetched forks, found all of them guarded,
\* and ended with exit code 0
C26_Witness ==
    /\ delete
    /\ pc = "exit"
    /\ forkedRepos # <<>>
    /\ unguardedRepos = <<>>
    /\ guardedRepos # <<>>
    /\ exitCode = exitOk

\* C28: errChan is closed only when every goroutine has finished, so no
\* goroutine is at its send, or still to reach it, once the channel is closed,
\* and no send ever hits the closed channel
C28_CloseAfterAllTasks ==
    /\ closed => /\ \A i \in DOMAIN task : task[i] = "done"
                 /\ wg = 0
    /\ \A i \in DOMAIN task :
         task[i] \in {"unborn", "deleteRepo", "httpClient.Do", "report"} =>
             ~closed
    /\ pc = "panic" => ParsePanics /\ task = <<>>

\* errChan was closed holding the one error kept of two failed deletions
C28_Witness ==
    /\ closed
    /\ pc = "collect"
    /\ Len(errChan) = 1
    /\ Len(toDelete) = 2
    /\ \A i \in DOMAIN taskErr : taskErr[i] # Nil

\* C29: a run with maxPage <= 0 that got past its fetch has sent no request,
\* holds no record and no error, and has ended with exit code 0; after what
\* fs.Parse wrote, its output is the lines announcing the fetch and 'No
\* forked repositories found'; it has not filtered, listed or deleted
\* anything
C29_NoPagesNoRequest ==
    (maxPage <= 0 /\ pc \notin {"cli", "os.Exit", "panic", "fetching"}
       /\ ~version /\ ~ValidationFailed) =>
      /\ requests = <<>>
      /\ forkedRepos = <<>>
      /\ err = Nil
      /\ pc = "exit"
      /\ exitCode = exitOk
      /\ stderr = <<>>
      /\ stdout = parseOutput(parseResult)
                    \o <<Line("Fetching forked repositories for %s...",
                              owner, 0),
                         Say("No forked repositories found")>>
      /\ unguardedRepos = <<>> /\ guardedRepos = <<>>
      /\ task = <<>>
      /\ IssuedDeletes = {}

\* a run with a negative maxPage and the delete flag ended with exit code 0
C29_Witness ==
    /\ maxPage < 0
    /\ delete
    /\ pc = "exit"
    /\ exitCode = exitOk
    /\ Len(stdout) = 2

\* C30 as stated: a run whose cliConfig holds mockFilterForkedRepos and that
\* is past its filter has partitioned the fetched records with that function;
\* the partition is what is listed and what deleteRepos gets
C30_UsesConfiguredFilter ==
    (configuredFilter = "mockFilterForkedRepos" /\ FetchSucceeded
       /\ pc # "filtering" /\ forkedRepos # <<>>) =>
      LET out == mockFilterForkedRepos(forkedRepos, protectedRepos,
                                       olderThanDays)
      IN  /\ unguardedRepos = out[1]
          /\ guardedRepos = out[2]
          /\ task # <<>> => toDelete = out[1]

----------------------------------------------------------------------------
(* Properties of deleteRepo.                                               *)

\* C27 as stated: deleteRepo, in each revision, issues one request, a DELETE,
\* whose URL is the base URL, "/repos/", the owner, "/", and the name
C27_DeleteURL ==
    pc = "deleteRepo returned" =>
      LET url == BaseURL \o <<"/repos/">> \o owner \o <<"/">>
                   \o toDelete[1].Name
      IN  /\ deletes[1] = <<[method |-> "DELETE", url |-> url]>>
          /\ createdAtDelete = <<[method |-> "DELETE", url |-> url]>>

====
